---------------------------- MODULE Spec2Model ----------------------------
(***************************************************************************)
(* Bitrix24 -> Postgres synchronisation service (src/app.py).              *)
(*                                                                         *)
(* Four parts of the service are modelled, each with its own variables and *)
(* its own specification:                                                  *)
(*   SpecClient  BitrixClient: _throttle and call (retry / backoff);       *)
(*               SpecCall is the same with a single calling thread         *)
(*   SpecSync    sync_entity_data_deal: cursor validation, forward pass,   *)
(*               today-pass, with store failures and crashes;              *)
(*               SpecOverlap is two threads in it at once, without faults  *)
(*   SpecQueue   webhook endpoint, queue table and webhook_queue_worker    *)
(*   SpecSched   on_startup threads, background_loop, sync endpoints       *)
(* A specification leaves the variables of the other parts unchanged.      *)
(***************************************************************************)
EXTENDS Integers, Sequences, FiniteSets, TLC

VARIABLES
    \* ---- BitrixClient (one shared instance, b24) ----
    callers,        \* the threads that call b24.call in this run
    since_last,     \* time.time() - _last_call_ts, capped at the minimum interval
    posted,         \* a request has been sent (_last_call_ts is no longer 0.0)
    last_gap,       \* spacing of the two latest requests, capped at the interval
    ticks,          \* clock steps taken outside of sleeps
    cpc,            \* per thread: position inside BitrixClient.call
    attempt,        \* per thread: loop variable of "for attempt in range(...)"
    rem,            \* per thread: what is left of its running time.sleep
    nreq,           \* per thread: requests.post calls of the current call
    waits,          \* per thread: backoff sleeps of the current call, in order
    allthr,         \* per thread: every response of the current call was 429 / *LIMIT*
    lastresp,       \* per thread: the last response of the current call
    outcome,        \* per thread: how the last call ended
    ncalls,         \* per thread: calls started
    \* ---- sync_entity_data_deal, its tables and the remote deals ----
    syncers,        \* the threads that call sync_entity_data_deal in this run
    remote,         \* ids of the deals that exist in Bitrix
    today,          \* ids of the deals with DATE_MODIFY >= start of the local day
    dtable,         \* ids of the rows of the local table b24_crm_deal
    cursor,         \* b24_sync_state.cursor of entity_key 'deal'
    loc,            \* per thread: position and locals of its sync_entity_data_deal call
    given,          \* ids the forward pass has received from Bitrix so far
    end_prev,       \* cursor at the end of the last but one successful non-empty call
    end_last,       \* cursor at the end of the last successful non-empty call
    \* ---- webhook endpoint, b24_webhook_queue and webhook_queue_worker ----
    queue,          \* rows of b24_webhook_queue, in id order (row i has id i)
    etable,         \* <<entity_key, id>> of the rows of the local entity tables
    wpc,            \* position of webhook_queue_worker inside its loop
    jobs,           \* the worker's local list jobs, what is left of it
    fetched,        \* ids of the queue rows the worker made a remote fetch for
    last_resp,      \* the endpoint's latest answer and whether its INSERT succeeded
    answered,       \* the latest notification the endpoint did not enqueue, and its answer
    \* ---- sync_schema and sync_entity_data_deal run one after the other ----
    eremote,        \* ids of the deals that exist in Bitrix
    emodified,      \* ids of the deals whose DATE_MODIFY is today
    ecursor,        \* sync cursor of the deals: the last id of the forward pass
    pending,        \* ids the running sync has fetched and not yet upserted
    ephase,         \* "idle", or "sync" inside sync_entity_data_deal
    synced,         \* a sync has ended since the latest schema refresh or field change
    \* ---- sync_data: the split of its time budget ----
    time_budget_sec, \* time_budget_sec of the sync_data call
    smart_n,        \* len(smart_ids): the smart-process types of b24_meta_entities
    handed,         \* the time_budget_sec handed to each entity sync of the call
    \* ---- one batch of sync_entity_data_deal: build_row_from_item, upsert_rows ----
    bbatch,         \* the items of the latest batch handed to upsert_rows
    bresult,        \* how upsert_rows ended for it: "none", "ok" or "raised"
    \* ---- sync_entity_data_contact, its table and the remote contacts ----
    cremote,        \* ids of the contacts that exist in Bitrix (they do not change)
    ctable,         \* ids of the rows of the local table b24_crm_contact
    ccursor,        \* b24_sync_state.cursor of entity_key contact
    cloc,           \* position and locals of the sync_entity_data_contact call
    cended,         \* a call has ended on an empty batch
    \* ---- one record written by a sync pass and by the webhook worker ----
    rversion,       \* the version of the record in Bitrix (DATE_MODIFY order)
    rstored,        \* the version the local row holds, 0 when there is no row
    rsync,          \* position of the sync pass and the version it fetched
    rwork,          \* position of the webhook worker and the version it fetched
    \* ---- background_loop, _initial_sync_thread and the sync endpoints ----
    auto_sync,      \* AUTO_SYNC_ENABLED
    sync_lock,      \* _sync_lock is held
    stage,          \* per thread: where inside sync_data it is ("none": outside)
    runs,           \* per thread: sync_data calls started
    last_tick,      \* what the latest iteration of background_loop did
    \* ---- sync_schema, b24_meta_fields and an entity table with its rows ----
    fields,         \* the remote field names of the entity, in declaration order
    meta,           \* rows of b24_meta_fields of the entity: [field, column]
    deal_fields,    \* the fields the last sync_schema run fetched, in order
    deal_colmap,    \* the colmap the last sync_schema run computed
    columns,        \* column names of the entity table
    utable,         \* rows of the entity table: functions from columns to values
    uclock,         \* now() of the store
    uprev,          \* the mapped record of the latest upsert
    usnap,          \* the rows of that id after the first of its equal upserts, updated_at left out
    urepeat         \* the latest upsert repeated the record of the one before it

clientVars == <<callers, since_last, posted, last_gap, ticks, cpc, attempt, rem,
                nreq, waits, allthr, lastresp, outcome, ncalls>>

syncVars == <<syncers, remote, today, dtable, cursor, loc, given, end_prev, end_last>>

queueVars == <<queue, etable, wpc, jobs, fetched, last_resp>>

endpointVars == <<answered>>

evolveVars == <<eremote, emodified, ecursor, pending, ephase, synced>>

budgetVars == <<time_budget_sec, smart_n, handed>>

batchVars == <<bbatch, bresult>>

contactVars == <<cremote, ctable, ccursor, cloc, cended>>

raceVars == <<rversion, rstored, rsync, rwork>>

schedVars == <<auto_sync, sync_lock, stage, runs, last_tick>>

schemaVars == <<fields, meta, deal_fields, deal_colmap, columns>>

tableVars == <<utable, uclock, uprev, usnap, urepeat>>

vars == <<clientVars, syncVars, queueVars, schedVars, schemaVars, tableVars, endpointVars, evolveVars, budgetVars, batchVars, contactVars, raceVars>>

--------------------------------------------------------------------------
(* Helpers *)

Min2(a, b) == IF a <= b THEN a ELSE b

Max2(a, b) == IF a >= b THEN a ELSE b

RECURSIVE Pow2(_)
Pow2(n) == IF n <= 0 THEN 1 ELSE 2 * Pow2(n - 1)

SetMax(S) == CHOOSE x \in S : \A y \in S : y <= x

SetMin(S) == CHOOSE x \in S : \A y \in S : x <= y

--------------------------------------------------------------------------
(* ------------------------- BitrixClient -------------------------------- *)

\* Time is counted in tenths of a second: 1.0 s and 0.7 s are 10 and 7.
\* The code reads the clock only through differences (now - _last_call_ts,
\* the length of a sleep), so the model keeps those differences: since_last
\* is the age of _last_call_ts and rem[t] the rest of thread t's sleep.
BITRIX_MIN_REQUEST_INTERVAL_SEC == 10
BITRIX_BACKOFF_BASE_SEC == 7
BITRIX_MAX_RETRIES == 8

\* Bounds of the client model.
MaxCalls == 1
MaxTicks == 2

\* The threads on_startup starts that call the shared client b24.
Threads == {"initial_sync", "background_loop"}

\* What one requests.post can come back with.
Responses == {"ok", "http429", "http401_overload", "http401_other", "http_other",
              "err_overload", "err_limit", "err_other", "transport_exc"}

Throttled == {"http429", "err_limit"}

\* A backoff that grows by the base each time instead of doubling.
BackoffWaitLinear(a) == BITRIX_BACKOFF_BASE_SEC * (a + 1)

\* wait = BITRIX_BACKOFF_BASE_SEC * (2 ** attempt)
BackoffWait(a) == BITRIX_BACKOFF_BASE_SEC * Pow2(a)

\* _throttle, lines 285-288: dt = now - _last_call_ts; how long to sleep.
ThrottleSleep(dt) ==
    IF dt < BITRIX_MIN_REQUEST_INTERVAL_SEC
    THEN BITRIX_MIN_REQUEST_INTERVAL_SEC - dt
    ELSE 0

\* The range of the retry loop: attempt a is run iff this holds.
LoopContinues(a) == a < BITRIX_MAX_RETRIES

ClientInitWith(cs) ==
    /\ callers = cs
    /\ since_last = BITRIX_MIN_REQUEST_INTERVAL_SEC   \* _last_call_ts = 0.0: long ago
    /\ posted = FALSE
    /\ last_gap = BITRIX_MIN_REQUEST_INTERVAL_SEC
    /\ ticks = 0
    /\ cpc = [t \in Threads |-> "idle"]
    /\ attempt = [t \in Threads |-> 0]
    /\ rem = [t \in Threads |-> 0]
    /\ nreq = [t \in Threads |-> 0]
    /\ waits = [t \in Threads |-> <<>>]
    /\ allthr = [t \in Threads |-> TRUE]
    /\ lastresp = [t \in Threads |-> "none"]
    /\ outcome = [t \in Threads |-> "none"]
    /\ ncalls = [t \in Threads |-> 0]

\* A thread enters b24.call(method, params).
CallStart(t) ==
    /\ cpc[t] \in {"idle", "done"}
    /\ ncalls[t] < MaxCalls
    /\ ncalls' = [ncalls EXCEPT ![t] = @ + 1]
    /\ attempt' = [attempt EXCEPT ![t] = 0]
    /\ nreq' = [nreq EXCEPT ![t] = 0]
    /\ waits' = [waits EXCEPT ![t] = <<>>]
    /\ allthr' = [allthr EXCEPT ![t] = TRUE]
    /\ lastresp' = [lastresp EXCEPT ![t] = "none"]
    /\ outcome' = [outcome EXCEPT ![t] = "none"]
    /\ cpc' = [cpc EXCEPT ![t] = "throttle"]
    /\ UNCHANGED <<callers, since_last, posted, last_gap, ticks, rem>>

\* _throttle lines 285-288: read the clock and _last_call_ts, sleep if too early.
ThrottleRead(t) ==
    /\ cpc[t] = "throttle"
    /\ LET d == ThrottleSleep(since_last) IN
         IF d > 0
         THEN /\ rem' = [rem EXCEPT ![t] = d]
              /\ cpc' = [cpc EXCEPT ![t] = "tsleep"]
         ELSE /\ cpc' = [cpc EXCEPT ![t] = "stamp"]
              /\ UNCHANGED rem
    /\ UNCHANGED <<callers, since_last, posted, last_gap, ticks, attempt, nreq,
                   waits, allthr, lastresp, outcome, ncalls>>

\* time.sleep of _throttle returns.
ThrottleWake(t) ==
    /\ cpc[t] = "tsleep"
    /\ rem[t] = 0
    /\ cpc' = [cpc EXCEPT ![t] = "stamp"]
    /\ UNCHANGED <<callers, since_last, posted, last_gap, ticks, attempt, rem, nreq,
                   waits, allthr, lastresp, outcome, ncalls>>

\* _throttle line 289 and requests.post: the slot is stamped and the request leaves.
Post(t) ==
    /\ cpc[t] = "stamp"
    /\ since_last' = 0
    /\ posted' = TRUE
    /\ last_gap' = IF posted THEN since_last ELSE last_gap
    /\ nreq' = [nreq EXCEPT ![t] = @ + 1]
    /\ cpc' = [cpc EXCEPT ![t] = "waitresp"]
    /\ UNCHANGED <<callers, ticks, attempt, rem, waits, allthr, lastresp, outcome,
                   ncalls>>

\* The loop body without its two OVERLOAD_LIMIT branches: a 401 is an
\* error and the code OVERLOAD_LIMIT, which contains "LIMIT", is backed off.
DispatchNoOverloadBranch(r) ==
    CASE r \in {"http429", "err_limit", "err_overload", "transport_exc"} -> "backoff"
      [] r \in {"http401_overload", "http401_other", "http_other", "err_other"} -> "http_error"
      [] OTHER -> "data"

\* The loop body backing off on every error code of a 200 body.
DispatchEveryCodeRetried(r) ==
    CASE r \in {"http429", "err_limit", "err_other", "transport_exc"} -> "backoff"
      [] r \in {"http401_overload", "err_overload"} -> "empty"
      [] r \in {"http401_other", "http_other"} -> "http_error"
      [] OTHER -> "data"

\* How the body of the loop treats response r: "backoff" (sleep and go round
\* again), or the way the call ends.
Dispatch(r) ==
    CASE r = "http429"          -> "backoff"
      [] r = "http401_overload" -> "empty"
      [] r = "http401_other"    -> "http_error"
      [] r = "http_other"       -> "http_error"
      [] r = "err_overload"     -> "empty"
      [] r = "err_limit"        -> "backoff"
      [] r = "err_other"        -> "http_error"
      [] r = "transport_exc"    -> "backoff"
      [] OTHER                  -> "data"

\* Lines 299-349: the response arrives and is dispatched.
Respond(t, r) ==
    /\ cpc[t] = "waitresp"
    /\ lastresp' = [lastresp EXCEPT ![t] = r]
    /\ allthr' = [allthr EXCEPT ![t] = @ /\ r \in Throttled]
    /\ IF Dispatch(r) = "backoff"
       THEN /\ waits' = [waits EXCEPT ![t] = Append(@, BackoffWait(attempt[t]))]
            /\ rem' = [rem EXCEPT ![t] = BackoffWait(attempt[t])]
            /\ cpc' = [cpc EXCEPT ![t] = "backoff"]
            /\ UNCHANGED outcome
       ELSE /\ outcome' = [outcome EXCEPT ![t] = Dispatch(r)]
            /\ cpc' = [cpc EXCEPT ![t] = "done"]
            /\ UNCHANGED <<waits, rem>>
    /\ UNCHANGED <<callers, since_last, posted, last_gap, ticks, attempt, nreq,
                   ncalls>>

\* The backoff sleep returns: next attempt, or line 351 once the range is used up.
BackoffWake(t) ==
    /\ cpc[t] = "backoff"
    /\ rem[t] = 0
    /\ attempt' = [attempt EXCEPT ![t] = @ + 1]
    /\ IF LoopContinues(attempt[t] + 1)
       THEN /\ cpc' = [cpc EXCEPT ![t] = "throttle"]
            /\ UNCHANGED outcome
       ELSE /\ cpc' = [cpc EXCEPT ![t] = "done"]
            /\ outcome' = [outcome EXCEPT ![t] = "retry_limit"]
    /\ UNCHANGED <<callers, since_last, posted, last_gap, ticks, rem, nreq, waits,
                   allthr, lastresp, ncalls>>

\* The clock advances by d: sleeps run down, _last_call_ts ages.
Sleepers == {t \in Threads : cpc[t] \in {"tsleep", "backoff"} /\ rem[t] > 0}

Elapse(d) ==
    /\ since_last' = Min2(BITRIX_MIN_REQUEST_INTERVAL_SEC, since_last + d)
    /\ rem' = [t \in Threads |-> Max2(0, rem[t] - d)]

\* The clock moves on by a tenth of a second while threads run.
Tick ==
    /\ ticks < MaxTicks
    /\ ticks' = ticks + 1
    /\ Elapse(1)
    /\ UNCHANGED <<callers, posted, last_gap, cpc, attempt, nreq, waits, allthr,
                   lastresp, outcome, ncalls>>

\* The clock moves on to the end of the shortest running sleep.
SleepElapses ==
    /\ Sleepers # {}
    /\ Elapse(SetMin({rem[t] : t \in Sleepers}))
    /\ UNCHANGED <<callers, posted, last_gap, ticks, cpc, attempt, nreq, waits,
                   allthr, lastresp, outcome, ncalls>>

--------------------------------------------------------------------------
(* --------------------- sync_entity_data_deal --------------------------- *)

\* Bounds of the sync model.  PageSize stands for the 50 records Bitrix
\* returns per list request, which is also the "short batch" threshold of
\* line 2006; ids are 1..MaxId.
MaxId == 4
PageSize == 2

\* validate_sync_cursor: "last_id > max_db_id + 1000"
SafetyMargin == 1000

\* DEAL_TODAY_MAX_PAGES
DEAL_TODAY_MAX_PAGES == 10

Ids == 1..MaxId

\* limit <= 0 means no record limit
_is_unlimited(l) == l <= 0

\* The limits a caller passes: 0 (endpoints, initial sync), a negative
\* number, or a positive ceiling.
Limits == {-1, 0, PageSize}

\* SELECT MAX(id) FROM table ... or 0
MaxDbId(t) == IF t = {} THEN 0 ELSE SetMax(t)

\* The n smallest elements of S.
RECURSIVE FirstN(_, _)
FirstN(S, n) ==
    IF n <= 0 \/ S = {} THEN {}
    ELSE LET m == SetMin(S) IN {m} \cup FirstN(S \ {m}, n - 1)

\* crm.deal.list with order ID ASC, start 0 and, only when start_id > 0,
\* the filter >ID = start_id: the first page of the matching deals.
ListDealsById(start_id) ==
    FirstN({i \in remote : start_id > 0 => i > start_id}, PageSize)

\* crm.deal.list with filter >=DATE_MODIFY and start = off: one page of the
\* deals modified today, and the "next" token (-1 when Bitrix sends none).
ListDealsToday(off) ==
    FirstN(today \ FirstN(today, off), PageSize)

NextToken(off) == IF Cardinality(today) > off + PageSize THEN off + PageSize ELSE -1

\* The staleness test with the margin taken one too wide.
CursorIsStaleWide(cur, t) == cur > MaxDbId(t) + SafetyMargin + 1

\* validate_sync_cursor, lines 481-484: the stored cursor is reset when it
\* is more than the margin above the largest local id.
CursorIsStale(cur, t) == cur > MaxDbId(t) + SafetyMargin

\* max_seen of lines 1984-1999: the largest id of the batch, or last_id.
MaxSeen(lid, batch) == IF batch = {} THEN lid ELSE Max2(lid, SetMax(batch))

\* The persisted cursors a deployment can start with: none yet (0), and
\* values written by an earlier offset-based version of the sync, which
\* validate_sync_cursor exists to catch (at and just above the margin).
InitCursors == {0, SafetyMargin, SafetyMargin + 1}

\* The locals of a thread that is not inside sync_entity_data_deal.
\*   spc: position; last_id, items, total, limit, offset, page: the locals;
\*   nxt: the next-page token of the last today-pass response (-1: None);
\*   timed_out: time.time() - started >= time_budget_sec has been seen;
\*   conn_ok: the call's connection is usable (no failed statement on it);
\*   start_stale: the stored cursor was above max id + margin at the start;
\*   validated: validate_sync_cursor's statements all succeeded;
\*   first_lower: start_id of the call's first forward request (-1: none yet);
\*   did_reset: validate_sync_cursor stored 0;
\*   raised: the thread's latest call ended by an exception of a list request;
\*   freq: list requests of the forward pass answered so far in this call;
\*   fstop: the forward pass has met one of the conditions that end it.
LocIdle ==
    [spc |-> "idle", last_id |-> 0, items |-> {}, total |-> 0, limit |-> 0,
     timed_out |-> FALSE, conn_ok |-> TRUE, offset |-> 0, page |-> 0, nxt |-> -1,
     start_stale |-> FALSE, validated |-> FALSE, first_lower |-> -1,
     did_reset |-> FALSE, raised |-> FALSE, freq |-> 0, fstop |-> FALSE]

SyncInitWith(ss, deals, cursors) ==
    /\ syncers = ss
    /\ remote = deals
    /\ today = {}
    /\ dtable = {}
    /\ cursor \in cursors
    /\ loc = [s \in Threads |-> LocIdle]
    /\ given = {}
    /\ end_prev = 0
    /\ end_last = 0

\* No sync in this run.
SyncQuiet == SyncInitWith({}, {}, {0})

\* A deal is created in Bitrix: the next id, modified today.
RemoteCreate ==
    /\ MaxDbId(remote) < MaxId
    /\ remote' = remote \cup {MaxDbId(remote) + 1}
    /\ today' = today \cup {MaxDbId(remote) + 1}
    /\ UNCHANGED <<syncers, dtable, cursor, loc, given, end_prev, end_last>>

\* An existing deal is edited in Bitrix today.
RemoteModify(i) ==
    /\ i \in remote \ today
    /\ today' = today \cup {i}
    /\ UNCHANGED <<syncers, remote, dtable, cursor, loc, given, end_prev, end_last>>

\* sync_entity_data_deal(conn, limit, time_budget_sec) is entered.
SyncStart(s, l) ==
    /\ loc[s].spc = "idle"
    /\ loc' = [loc EXCEPT ![s] =
                  [LocIdle EXCEPT !.spc = "validate",
                                  !.limit = l,
                                  !.start_stale = cursor > MaxDbId(dtable) + SafetyMargin]]
    /\ UNCHANGED <<syncers, remote, today, dtable, cursor, given, end_prev, end_last>>

\* validate_sync_cursor, its statements succeeding (lines 468-484, 490).
Validate(s) ==
    /\ loc[s].spc = "validate"
    /\ IF cursor # 0 /\ CursorIsStale(cursor, dtable)
       THEN /\ cursor' = 0
            /\ loc' = [loc EXCEPT ![s].spc = "forward", ![s].validated = TRUE,
                                  ![s].last_id = 0, ![s].did_reset = TRUE]
       ELSE /\ loc' = [loc EXCEPT ![s].spc = "forward", ![s].validated = TRUE,
                                  ![s].last_id = cursor]
            /\ UNCHANGED cursor
    /\ UNCHANGED <<syncers, remote, today, dtable, given, end_prev, end_last>>

\* validate_sync_cursor, lines 474-488: SELECT MAX(id) (or the reset) raises;
\* the except branch returns the stored cursor as it is.  The statement
\* failed inside the connection's transaction, which is unusable from then on.
ValidateStoreError(s) ==
    /\ loc[s].spc = "validate"
    /\ cursor # 0
    /\ loc' = [loc EXCEPT ![s].spc = "forward", ![s].last_id = cursor,
                          ![s].conn_ok = FALSE]
    /\ UNCHANGED <<syncers, remote, today, dtable, cursor, given, end_prev, end_last>>

\* The call ends by an exception (a remote call or a store statement
\* raised) or the process dies: the locals are gone, what was committed stays.
SyncAbort(s) ==
    /\ loc' = [loc EXCEPT ![s] = LocIdle]
    /\ UNCHANGED <<syncers, remote, today, dtable, cursor, given, end_prev, end_last>>

\* Lines 1967-1968: the time budget is used up at the top of the forward loop.
ForwardTimeout(s) ==
    /\ loc[s].spc = "forward"
    /\ loc' = [loc EXCEPT ![s].timed_out = TRUE, ![s].spc = "today",
                          ![s].fstop = TRUE]
    /\ UNCHANGED <<syncers, remote, today, dtable, cursor, given, end_prev, end_last>>

\* Lines 1970-1981: one list request of the forward pass.  overload: the
\* client answered OVERLOAD_LIMIT, which b24_list_deals turns into no items.
ForwardFetch(s, overload) ==
    /\ loc[s].spc = "forward"
    /\ LET got == IF overload THEN {} ELSE ListDealsById(loc[s].last_id)
           low == IF loc[s].first_lower = -1 THEN loc[s].last_id
                  ELSE loc[s].first_lower
       IN
         /\ given' = given \cup got
         /\ IF got = {}
            THEN \* set_sync_cursor(last_id if last_id > 0 else 0); break
                 IF loc[s].conn_ok
                 THEN /\ cursor' = loc[s].last_id
                      /\ loc' = [loc EXCEPT ![s].spc = "today", ![s].first_lower = low,
                                            ![s].freq = @ + 1, ![s].fstop = TRUE]
                 ELSE /\ loc' = [loc EXCEPT ![s] = LocIdle]
                      /\ UNCHANGED cursor
            ELSE /\ loc' = [loc EXCEPT ![s].spc = "fetched", ![s].items = got,
                                       ![s].first_lower = low, ![s].freq = @ + 1]
                 /\ UNCHANGED cursor
    /\ UNCHANGED <<syncers, remote, today, dtable, end_prev, end_last>>

\* b24.call raises inside b24_list_deals, and the cursor is written for the
\* failed request as for a page that was read.
FetchRaisesCursorWritten(s) ==
    /\ loc[s].spc \in {"forward", "today"}
    /\ ~loc[s].timed_out
    /\ cursor' = loc[s].last_id + PageSize
    /\ loc' = [loc EXCEPT ![s] = [LocIdle EXCEPT !.raised = TRUE]]
    /\ UNCHANGED <<syncers, remote, today, dtable, given, end_prev, end_last>>

\* b24.call raises inside b24_list_deals (line 1970 or 2026): nothing
\* catches it in sync_entity_data_deal, the call ends.
FetchRaises(s) ==
    /\ loc[s].spc \in {"forward", "today"}
    /\ ~loc[s].timed_out
    /\ loc' = [loc EXCEPT ![s] = [LocIdle EXCEPT !.raised = TRUE]]
    /\ UNCHANGED <<syncers, remote, today, dtable, cursor, given, end_prev, end_last>>

\* Lines 1995-1997: upsert_rows commits the batch.
UpsertBatch(s) ==
    /\ loc[s].spc = "fetched"
    /\ loc[s].conn_ok
    /\ dtable' = dtable \cup loc[s].items
    /\ loc' = [loc EXCEPT ![s].spc = "upserted",
                          ![s].total = @ + Cardinality(loc[s].items)]
    /\ UNCHANGED <<syncers, remote, today, cursor, given, end_prev, end_last>>

\* A failed upsert with the cursor already moved to the batch's last id.
UpsertFailsCursorMoved(s) ==
    /\ loc[s].spc = "fetched"
    /\ cursor' = MaxSeen(loc[s].last_id, loc[s].items)
    /\ loc' = [loc EXCEPT ![s] = LocIdle]
    /\ UNCHANGED <<syncers, remote, today, dtable, given, end_prev, end_last>>

\* upsert_rows raises (the store fails, or the connection is unusable):
\* nothing of the batch is stored and the exception ends the call.
UpsertFails(s) ==
    /\ loc[s].spc = "fetched"
    /\ SyncAbort(s)

\* The row limit is reached: not _is_unlimited(limit) and total >= limit.
LimitReached(l) == (~_is_unlimited(l.limit)) /\ l.total >= l.limit

\* len(items) < 50: the batch is shorter than a page.
ShortBatch(l) == Cardinality(l.items) < PageSize

\* Lines 1999-2007 without the test of line 2006: a short batch does not
\* end the loop.
PersistCursorShortGoesOn(s) ==
    /\ loc[s].spc = "upserted"
    /\ LET m == MaxSeen(loc[s].last_id, loc[s].items) IN
         /\ cursor' = m
         /\ loc' = [loc EXCEPT
               ![s].last_id = m,
               ![s].items = {},
               ![s].fstop = LimitReached(loc[s]) \/ ShortBatch(loc[s]),
               ![s].spc = IF LimitReached(loc[s]) THEN "today" ELSE "forward"]
    /\ UNCHANGED <<syncers, remote, today, dtable, given, end_prev, end_last>>

\* Lines 1999-2007: the cursor of the batch is persisted; then the loop's exits.
PersistCursor(s) ==
    /\ loc[s].spc = "upserted"
    /\ LET m == MaxSeen(loc[s].last_id, loc[s].items) IN
         /\ cursor' = m
         /\ loc' = [loc EXCEPT
               ![s].last_id = m,
               ![s].items = {},
               ![s].fstop = LimitReached(loc[s]) \/ ShortBatch(loc[s]),
               ![s].spc = IF (~_is_unlimited(loc[s].limit)) /\ loc[s].total >= loc[s].limit
                          THEN "today"
                          ELSE IF Cardinality(loc[s].items) < PageSize THEN "today"
                          ELSE "forward"]
    /\ UNCHANGED <<syncers, remote, today, dtable, given, end_prev, end_last>>

\* set_sync_cursor raises, or the process dies between the upsert and it.
PersistFails(s) ==
    /\ loc[s].spc = "upserted"
    /\ SyncAbort(s)

\* Lines 2020-2036: top of the today-pass loop and its list request.
TodayFetch(s, overload) ==
    /\ loc[s].spc = "today"
    /\ ~loc[s].timed_out
    /\ loc[s].page < DEAL_TODAY_MAX_PAGES
    /\ LET got == IF overload THEN {} ELSE ListDealsToday(loc[s].offset) IN
         IF got = {}
         THEN loc' = [loc EXCEPT ![s].spc = "return"]
         ELSE loc' = [loc EXCEPT ![s].spc = "today_fetched", ![s].items = got,
                                 ![s].nxt = NextToken(loc[s].offset)]
    /\ UNCHANGED <<syncers, remote, today, dtable, cursor, given, end_prev, end_last>>

\* Lines 2020-2024: the budget or the page ceiling ends the today-pass.
TodayStops(s) ==
    /\ loc[s].spc = "today"
    /\ loc[s].timed_out \/ loc[s].page >= DEAL_TODAY_MAX_PAGES
    /\ loc' = [loc EXCEPT ![s].spc = "return"]
    /\ UNCHANGED <<syncers, remote, today, dtable, cursor, given, end_prev, end_last>>

\* The budget runs out while the today-pass is under way.
TodayTimeout(s) ==
    /\ loc[s].spc = "today"
    /\ ~loc[s].timed_out
    /\ loc' = [loc EXCEPT ![s].timed_out = TRUE]
    /\ UNCHANGED <<syncers, remote, today, dtable, cursor, given, end_prev, end_last>>

\* Lines 2038-2051: the page is upserted; next page or the end.
TodayUpsert(s) ==
    /\ loc[s].spc = "today_fetched"
    /\ loc[s].conn_ok
    /\ dtable' = dtable \cup loc[s].items
    /\ loc' = [loc EXCEPT
          ![s].total = @ + Cardinality(loc[s].items),
          ![s].page = @ + 1,
          ![s].items = {},
          ![s].spc = IF loc[s].nxt = -1 THEN "return" ELSE "today",
          ![s].offset = IF loc[s].nxt = -1 THEN @ ELSE loc[s].nxt]
    /\ UNCHANGED <<syncers, remote, today, cursor, given, end_prev, end_last>>

\* upsert_rows of the today-pass raises.
TodayUpsertFails(s) ==
    /\ loc[s].spc = "today_fetched"
    /\ SyncAbort(s)

\* Line 2053: the call returns rows_upserted and cursor_now.
SyncReturn(s) ==
    /\ loc[s].spc = "return"
    /\ loc[s].conn_ok
    /\ IF loc[s].total > 0
       THEN /\ end_prev' = end_last
            /\ end_last' = cursor
       ELSE UNCHANGED <<end_prev, end_last>>
    /\ loc' = [loc EXCEPT ![s] = LocIdle]
    /\ UNCHANGED <<syncers, remote, today, dtable, cursor, given>>

\* Line 2053 with an unusable connection: get_sync_cursor raises.
SyncReturnFails(s) ==
    /\ loc[s].spc = "return"
    /\ ~loc[s].conn_ok
    /\ SyncAbort(s)

\* The process is killed in the middle of a call.
Crash(s) ==
    /\ loc[s].spc # "idle"
    /\ SyncAbort(s)

--------------------------------------------------------------------------
(* ------------- webhook endpoint, queue and queue worker ---------------- *)

\* Bounds of the queue model: rows ever inserted, and the attempts after
\* which the model stops failing a row.
MaxQueue == 2
MaxAttempts == 3

\* LIMIT 10 of the worker's SELECT
JobsLimit == 10

\* backoff = min(300, 5 * (attempts + 1))
BackoffCapSec == 300
BackoffUnitSec == 5

\* The entities notifications arrive for.
Entities == {<<"deal", 1>>, <<"deal", 2>>}

\* The event names Bitrix sends for a deal.
EventNames == {"ONCRMDEALUPDATE", "ONCRMDEALDELETE"}

\* "DELETE" in ev.upper() or "REMOVE" in ev.upper()
IsDeleteEvent(ev) == ev \in {"ONCRMDEALDELETE"}

\* WHERE status IN ('new','retry','pending'), with every status selectable.
IsSelectableAnyStatus(st) == TRUE

\* WHERE status IN ('new','retry','pending')
IsSelectable(st) == st \in {"new", "retry", "pending"}

\* The WHERE clause without the test of next_run_at.
IsDueAtAnyTime(r) == IsSelectable(r.status)

\* AND (next_run_at IS NULL OR next_run_at <= now()); due_in is next_run_at - now()
IsDue(r) == IsSelectable(r.status) /\ r.due_in = 0

WebhookBackoff(attempts) == Min2(BackoffCapSec, BackoffUnitSec * (attempts + 1))

\* The ids of S in increasing order.
RECURSIVE SortedSeq(_)
SortedSeq(S) ==
    IF S = {} THEN <<>>
    ELSE LET m == SetMin(S) IN <<m>> \o SortedSeq(S \ {m})

\* SELECT id, ..., attempts ... ORDER BY id LIMIT 10
SelectJobs ==
    LET due == SortedSeq({i \in 1..Len(queue) : IsDue(queue[i])})
        cut == SubSeq(due, 1, Min2(JobsLimit, Len(due)))
    IN [k \in 1..Len(cut) |-> [qid |-> cut[k], attempts |-> queue[cut[k]].attempts]]

QueueInit ==
    /\ queue = <<>>
    /\ etable = {}
    /\ wpc = "select"
    /\ jobs = <<>>
    /\ fetched = {}
    /\ last_resp = [queued |-> FALSE, inserted |-> FALSE]

\* b24_dynamic_item_update with a parsable notification whose INSERT succeeds.
Enqueue(e, ev) ==
    /\ Len(queue) < MaxQueue
    /\ queue' = Append(queue, [ek |-> e[1], eid |-> e[2], ev |-> ev, status |-> "new",
                               attempts |-> 0, due_in |-> 0])
    /\ last_resp' = [queued |-> TRUE, inserted |-> TRUE]
    /\ UNCHANGED <<etable, wpc, jobs, fetched>>

\* The same with the INSERT raising: _enqueue_webhook_event logs and returns.
EnqueueInsertFails ==
    /\ last_resp' = [queued |-> TRUE, inserted |-> FALSE]
    /\ last_resp' # last_resp
    /\ UNCHANGED <<queue, etable, wpc, jobs, fetched>>

\* What a notification carries, as the endpoint reads it: the event name,
\* data[FIELDS][ID], data[FIELDS][ENTITY_TYPE_ID], and whether the body
\* could be read at all (request.json() raises on a malformed JSON body).
NotifEvents == {"ONCRMDEALUPDATE", "ONCRMDYNAMICITEMUPDATE", "ONTASKADD", ""}

NotifIds == {"", "abc", "1"}

NotifTypeIds == {"", "abc", "31"}

Notifications ==
    [event : NotifEvents, id : NotifIds, type_id : NotifTypeIds, body_ok : BOOLEAN]

\* "ONCRMDYNAMICITEM" in ev or "DYNAMIC" in ev
IsDynamicEvent(ev) == ev = "ONCRMDYNAMICITEMUPDATE"

\* int(s) returns (it raises ValueError otherwise)
IsIntText(s) == s \in {"1", "31"}

\* entity_key of step 3 for an event that is not a dynamic one: the chain of
\* "ONCRMDEAL" in ev, "ONCRMLEAD" in ev, "ONCRMCONTACT" in ev, "ONCRMCOMPANY" in ev.
EntityKeyOfEvent(ev) == IF ev = "ONCRMDEALUPDATE" THEN "deal" ELSE ""

\* The answer of b24_dynamic_item_update to notification n: the body cannot
\* be read (outer except), a dynamic event without ENTITY_TYPE_ID, a dynamic
\* event whose ENTITY_TYPE_ID is no integer (int() raises, outer except), no
\* entity_key or no id, an id that is no integer, else the event is enqueued.
EndpointAnswer(n) ==
    IF ~n.body_ok THEN [ok |-> FALSE, queued |-> FALSE]
    ELSE IF IsDynamicEvent(n.event) /\ n.type_id = "" THEN [ok |-> TRUE, queued |-> FALSE]
    ELSE IF IsDynamicEvent(n.event) /\ ~IsIntText(n.type_id) THEN [ok |-> FALSE, queued |-> FALSE]
    ELSE IF (~IsDynamicEvent(n.event) /\ EntityKeyOfEvent(n.event) = "") \/ n.id = ""
         THEN [ok |-> TRUE, queued |-> FALSE]
    ELSE IF ~IsIntText(n.id) THEN [ok |-> TRUE, queued |-> FALSE]
    ELSE [ok |-> TRUE, queued |-> TRUE]

\* No notification has been turned away yet.
NoAnswer ==
    [notif |-> [event |-> "none", id |-> "", type_id |-> "", body_ok |-> TRUE],
     ok |-> TRUE, queued |-> FALSE]

EndpointQuiet == answered = NoAnswer

\* b24_dynamic_item_update with a notification it does not enqueue: it
\* returns before _enqueue_webhook_event, no statement reaches the store.
EndpointRejects(n) ==
    /\ ~EndpointAnswer(n).queued
    /\ answered' = [notif |-> n, ok |-> EndpointAnswer(n).ok,
                    queued |-> EndpointAnswer(n).queued]
    /\ answered' # answered
    /\ UNCHANGED queueVars

\* Lines 2785-2803: the worker reads the due rows (none: sleep and read again).
WSelect ==
    /\ wpc = "select"
    /\ SelectJobs # <<>>
    /\ jobs' = SelectJobs
    /\ wpc' = "mark"
    /\ UNCHANGED <<queue, etable, fetched, last_resp>>

\* End of one job: the next job of the list, or back to the SELECT.
AfterJob == IF Len(jobs) > 1 THEN "mark" ELSE "select"

\* Lines 2814-2818: UPDATE ... SET status='processing'.
WMark ==
    /\ wpc = "mark"
    /\ LET j == Head(jobs) IN
         /\ queue' = [queue EXCEPT ![j.qid].status = "processing"]
         /\ wpc' = IF IsDeleteEvent(queue[j.qid].ev) THEN "delete" ELSE "fetch"
    /\ UNCHANGED <<etable, jobs, fetched, last_resp>>

\* Lines 2820-2826: a delete event is marked done, nothing else.
WDeleteDone ==
    /\ wpc = "delete"
    /\ queue' = [queue EXCEPT ![Head(jobs).qid].status = "done"]
    /\ jobs' = Tail(jobs)
    /\ wpc' = AfterJob
    /\ UNCHANGED <<etable, fetched, last_resp>>

\* UPDATE ... SET status='retry', attempts=attempts+1, next_run_at=now()+backoff
MarkRetry(j) ==
    [queue EXCEPT ![j.qid].status = "retry",
                  ![j.qid].attempts = @ + 1,
                  ![j.qid].due_in = WebhookBackoff(j.attempts)]

\* Lines 2828-2841: _bitrix_get_one returns nothing (overload, an error
\* swallowed, an item that is gone): the row is put to retry.
WFetchNone ==
    /\ wpc = "fetch"
    /\ Head(jobs).attempts < MaxAttempts
    /\ fetched' = fetched \cup {Head(jobs).qid}
    /\ queue' = MarkRetry(Head(jobs))
    /\ jobs' = Tail(jobs)
    /\ wpc' = AfterJob
    /\ UNCHANGED <<etable, last_resp>>

\* Line 2828: _bitrix_get_one returns the item.
WFetchItem ==
    /\ wpc = "fetch"
    /\ fetched' = fetched \cup {Head(jobs).qid}
    /\ wpc' = "upsert"
    /\ UNCHANGED <<queue, etable, jobs, last_resp>>

\* Lines 2843-2853: _upsert_single_item stores the row; the event is done.
WUpsertOk ==
    /\ wpc = "upsert"
    /\ LET r == queue[Head(jobs).qid] IN etable' = etable \cup {<<r.ek, r.eid>>}
    /\ wpc' = "final_done"
    /\ UNCHANGED <<queue, jobs, fetched, last_resp>>

WFinalDone ==
    /\ wpc = "final_done"
    /\ queue' = [queue EXCEPT ![Head(jobs).qid].status = "done"]
    /\ jobs' = Tail(jobs)
    /\ wpc' = AfterJob
    /\ UNCHANGED <<etable, fetched, last_resp>>

\* Lines 2843-2862: _upsert_single_item returns False (no column map, no
\* id in the item): the row is put to retry.
WUpsertFalse ==
    /\ wpc = "upsert"
    /\ Head(jobs).attempts < MaxAttempts
    /\ queue' = MarkRetry(Head(jobs))
    /\ jobs' = Tail(jobs)
    /\ wpc' = AfterJob
    /\ UNCHANGED <<etable, fetched, last_resp>>

\* Lines 2865-2868: a statement of the loop raises (pg_conn, an UPDATE,
\* upsert_rows): the rest of the list is dropped, the loop starts again.
WException ==
    /\ wpc # "select"
    /\ jobs' = <<>>
    /\ wpc' = "select"
    /\ UNCHANGED <<queue, etable, fetched, last_resp>>

\* Time passes up to the next next_run_at.
QTick ==
    /\ \E i \in 1..Len(queue) : queue[i].due_in > 0
    /\ LET d == SetMin({queue[i].due_in : i \in {k \in 1..Len(queue) : queue[k].due_in > 0}})
       IN queue' = [i \in 1..Len(queue) |->
                       [queue[i] EXCEPT !.due_in = Max2(0, @ - d)]]
    /\ UNCHANGED <<etable, wpc, jobs, fetched, last_resp>>

--------------------------------------------------------------------------
(* ------- background_loop, _initial_sync_thread, sync endpoints --------- *)

\* Bound: sync_data calls started per thread.
MaxRuns == 2

\* The threads that call sync_data: the scheduler, the initial sync of
\* on_startup, a request to /sync/data, the thread of /sync/data/full.
SyncDataCallers ==
    {"background_loop", "initial_sync", "sync_data_endpoint", "sync_data_full"}

\* sync_data in order: meta tables and smart ids, deals, contacts, leads,
\* smart processes, sources classifier.
StageOrder == <<"prepare", "deal", "contact", "lead", "smart", "classifier">>

SyncDataStages == {StageOrder[k] : k \in 1..Len(StageOrder)}

StageIndex(st) == CHOOSE k \in 1..Len(StageOrder) : StageOrder[k] = st

InSyncData(p) == stage[p] \in SyncDataStages

\* What follows the end of sync_data (return or exception) in thread p:
\* background_loop goes on to its hourly assigned_by_name update, still
\* holding the lock; the other threads are done.
AfterSyncData(p) == IF p = "background_loop" THEN "assigned_update" ELSE "none"

SchedInitWith(enabled) ==
    /\ auto_sync \in enabled
    /\ sync_lock = FALSE
    /\ stage = [p \in SyncDataCallers |-> "none"]
    /\ runs = [p \in SyncDataCallers |-> 0]
    /\ last_tick = "none"

SchedQuiet == SchedInitWith({FALSE})

\* One iteration of background_loop up to its sleep or its call of sync_data.
\* night: datetime.now().hour is in 0..5.
BgTick(night) ==
    /\ stage["background_loop"] = "none"
    /\ IF ~auto_sync THEN
           /\ last_tick' = "disabled"
           /\ UNCHANGED <<sync_lock, stage, runs>>
       ELSE IF night THEN
           /\ last_tick' = "night"
           /\ UNCHANGED <<sync_lock, stage, runs>>
       ELSE IF sync_lock THEN          \* _sync_lock.acquire(blocking=False) fails
           /\ last_tick' = "busy"
           /\ UNCHANGED <<sync_lock, stage, runs>>
       ELSE
           /\ runs["background_loop"] < MaxRuns
           /\ sync_lock' = TRUE
           /\ stage' = [stage EXCEPT !["background_loop"] = "prepare"]
           /\ runs' = [runs EXCEPT !["background_loop"] = @ + 1]
           /\ last_tick' = "sync"
    /\ UNCHANGED auto_sync

\* _initial_sync_thread reaches its call of sync_data (once per start).
InitialSyncStart ==
    /\ stage["initial_sync"] = "none"
    /\ runs["initial_sync"] = 0
    /\ stage' = [stage EXCEPT !["initial_sync"] = "prepare"]
    /\ runs' = [runs EXCEPT !["initial_sync"] = 1]
    /\ UNCHANGED <<auto_sync, sync_lock, last_tick>>

\* POST /sync/data, or the thread started by POST /sync/data/full, calls sync_data.
EndpointSyncStart(p) ==
    /\ p \in {"sync_data_endpoint", "sync_data_full"}
    /\ stage[p] = "none"
    /\ runs[p] < MaxRuns
    /\ stage' = [stage EXCEPT ![p] = "prepare"]
    /\ runs' = [runs EXCEPT ![p] = @ + 1]
    /\ UNCHANGED <<auto_sync, sync_lock, last_tick>>

\* One stage of sync_data ends normally (the classifier's exceptions are
\* caught inside sync_data, so it always does).
StageDone(p) ==
    /\ InSyncData(p)
    /\ stage' = [stage EXCEPT ![p] =
                    IF stage[p] = "classifier" THEN AfterSyncData(p)
                    ELSE StageOrder[StageIndex(stage[p]) + 1]]
    /\ UNCHANGED <<auto_sync, sync_lock, runs, last_tick>>

\* A stage before the classifier raises: sync_data has no handler around
\* it, the exception ends the whole call.
StageRaises(p) ==
    /\ InSyncData(p)
    /\ stage[p] # "classifier"
    /\ stage' = [stage EXCEPT ![p] = AfterSyncData(p)]
    /\ UNCHANGED <<auto_sync, sync_lock, runs, last_tick>>

\* background_loop: end of the locked block (finally: _sync_lock.release()).
BgRelease ==
    /\ stage["background_loop"] = "assigned_update"
    /\ stage' = [stage EXCEPT !["background_loop"] = "none"]
    /\ sync_lock' = FALSE
    /\ UNCHANGED <<auto_sync, runs, last_tick>>

--------------------------------------------------------------------------
(* ------------- sync_data: the time budget of each entity sync ---------- *)

\* Bounds: the budgets and the numbers of smart-process types looked at.
MaxBudget == 20
MaxSmart == 8

\* SYNC_TIME_BUDGET_SEC, the default budget of the scheduler and of /sync/data
SYNC_TIME_BUDGET_SEC == 10

\* int(time_budget_sec * 0.3) and int(time_budget_sec * 0.2): the product is
\* a float, int() cuts it; for the budgets here that is the integer quotient.
Share(budget, tenths) == (budget * tenths) \div 10

\* Lines 2348-2352.
deal_budget(b) == Max2(1, Share(b, 3))

contact_budget(b) == Max2(1, Share(b, 2))

lead_budget(b) == Max2(1, Share(b, 2))

t_rest(b) == Max2(1, b - deal_budget(b) - contact_budget(b) - lead_budget(b))

per_smart(b, n) == Max2(1, t_rest(b) \div Max2(1, n))

NotSplit == [t0 |-> 0, t1 |-> 0, t2 |-> 0, per_smart |-> 0]

BudgetInit ==
    /\ time_budget_sec \in 1..MaxBudget
    /\ smart_n \in 0..MaxSmart
    /\ handed = NotSplit

BudgetQuiet ==
    /\ time_budget_sec = SYNC_TIME_BUDGET_SEC
    /\ smart_n = 0
    /\ handed = NotSplit

\* sync_data computes the budgets it hands to the entity syncs.
SplitBudget ==
    /\ handed = NotSplit
    /\ handed' = [t0 |-> deal_budget(time_budget_sec),
                  t1 |-> contact_budget(time_budget_sec),
                  t2 |-> lead_budget(time_budget_sec),
                  per_smart |-> per_smart(time_budget_sec, smart_n)]
    /\ UNCHANGED <<time_budget_sec, smart_n>>

\* The call is over; the next one may find more or fewer smart-process types.
NextBudgetCall(b, n) ==
    /\ handed # NotSplit
    /\ time_budget_sec' = b
    /\ smart_n' = n
    /\ handed' = NotSplit

--------------------------------------------------------------------------
(* ------------- Naming of columns: sanitize_ident, unique_column_name --- *)

\* Names are sequences of characters.
ColId == <<"i", "d">>
ColRaw == <<"r", "a", "w">>
ColCreatedAt == <<"c", "r", "e", "a", "t", "e", "d", "_", "a", "t">>
ColUpdatedAt == <<"u", "p", "d", "a", "t", "e", "d", "_", "a", "t">>

\* existing_cols = set(["id", "raw", "created_at", "updated_at"])
BaseColumns == {ColId, ColRaw, ColCreatedAt, ColUpdatedAt}

LowerLetters ==
    {"a", "b", "c", "d", "e", "f", "g", "h", "i", "j", "k", "l", "m", "n", "o", "p",
     "q", "r", "s", "t", "u", "v", "w", "x", "y", "z"}

UpperToLower ==
    [c \in {"A", "D", "I", "X"} |->
        CASE c = "A" -> "a" [] c = "D" -> "d" [] c = "I" -> "i" [] OTHER -> "x"]

DigitChars == <<"0", "1", "2", "3", "4", "5", "6", "7", "8", "9">>

Digits == {DigitChars[k] : k \in 1..10}

\* str(name).lower(), one character
Lower(c) == IF c \in DOMAIN UpperToLower THEN UpperToLower[c] ELSE c

\* re.sub(r"[^a-z0-9_]+", "_", name), one character (runs are collapsed next)
Allowed(c) == IF c \in LowerLetters \cup Digits \cup {"_"} THEN c ELSE "_"

\* re.sub(r"_+", "_", name)
RECURSIVE CollapseUnderscores(_)
CollapseUnderscores(n) ==
    IF Len(n) <= 1 THEN n
    ELSE IF n[1] = "_" /\ n[2] = "_" THEN CollapseUnderscores(Tail(n))
    ELSE <<n[1]>> \o CollapseUnderscores(Tail(n))

RECURSIVE LStrip(_)
LStrip(n) == IF n # <<>> /\ n[1] = "_" THEN LStrip(Tail(n)) ELSE n

RECURSIVE RStrip(_)
RStrip(n) ==
    IF n # <<>> /\ n[Len(n)] = "_" THEN RStrip(SubSeq(n, 1, Len(n) - 1)) ELSE n

\* sanitize_ident(name, max_len=55)
SanitizeMaxLen == 55

sanitize_ident(name) ==
    LET mapped == [k \in 1..Len(name) |-> Allowed(Lower(name[k]))]
        stripped == RStrip(LStrip(CollapseUnderscores(mapped)))
        filled == IF stripped = <<>> THEN <<"f", "i", "e", "l", "d">> ELSE stripped
        cut == IF Len(filled) > SanitizeMaxLen
               THEN RStrip(SubSeq(filled, 1, SanitizeMaxLen))
               ELSE filled
    IN IF cut[1] \in Digits THEN <<"f", "_">> \o cut ELSE cut

\* f"{base}_{i}" for 2 <= i <= 9
Suffixed(base, i) == base \o <<"_", DigitChars[i + 1]>>

\* unique_column_name that tries the suffix 2 only.
unique_column_nameOneSuffix(existing, base) ==
    IF base \notin existing THEN base ELSE Suffixed(base, 2)

\* unique_column_name: the name it returns (it also adds it to existing)
unique_column_name(existing, base) ==
    IF base \notin existing THEN base
    ELSE Suffixed(base, CHOOSE i \in 2..9 :
                            /\ Suffixed(base, i) \notin existing
                            /\ \A j \in 2..(i - 1) : Suffixed(base, j) \in existing)

\* The loop of sync_schema over fields.keys(): the colmap of fields k..Len(fs).
RECURSIVE ColmapFrom(_, _, _)
ColmapFrom(fs, k, existing) ==
    IF k > Len(fs) THEN {}
    ELSE LET col == unique_column_name(existing, sanitize_ident(fs[k]))
         IN {[field |-> fs[k], column |-> col]} \cup ColmapFrom(fs, k + 1, existing \cup {col})

\* deal_colmap of one sync_schema run
BuildColmap(fs) == ColmapFrom(fs, 1, BaseColumns)

\* upsert_meta_fields: INSERT ... ON CONFLICT (entity_key, b24_field) DO UPDATE
\* SET column_name = EXCLUDED.column_name; rows of other fields stay.
UpsertMetaFields(m, colmap) ==
    {r \in m : \A c \in colmap : c.field # r.field} \cup colmap

\* ensure_columns that makes the table's columns those of the colmap.
EnsureColumnsOfColmapOnly(cols, colmap) == BaseColumns \cup {c.column : c \in colmap}

\* ensure_table_base and ensure_columns: ADD COLUMN IF NOT EXISTS
EnsureColumns(cols, colmap) == cols \cup BaseColumns \cup {c.column : c \in colmap}

--------------------------------------------------------------------------
(* ------------- Rows of an entity table: upsert_rows -------------------- *)

\* Bounds of the table model: ids of records and the clock of the store.
MaxRecId == 2
MaxClock == 2

\* NULL of the store, None of Python
Null == "NULL"

\* The values Bitrix sends for a field: an empty string or a text.
ItemValues == {"", "a"}

\* b24_type of a field as b24_meta_fields holds it.
FieldType(f) == IF f = <<"X">> THEN "string" ELSE "double"

\* normalize_value for a scalar of a field that is not multiple: an empty
\* string becomes None unless the type is string, text or char.
normalize_value(v, b24_type) ==
    IF v = "" /\ b24_type \notin {"string", "text", "char"} THEN Null ELSE v

\* The items Bitrix can return: an id and a value for each remote field.
Items(fs) ==
    [id : 1..MaxRecId, vals : [{fs[k] : k \in 1..Len(fs)} -> ItemValues]]

MappedColumns(m) == {r.column : r \in m}

\* The values build_row_from_item can put into column c: the normalized
\* value of a field mapped to c that the item has (the loop over colmap
\* keeps the last one that is not None), None when there is none.
CellCandidates(m, item, c) ==
    LET vs == {normalize_value(item.vals[r.field], FieldType(r.field)) :
                   r \in {x \in m : x.column = c /\ x.field \in DOMAIN item.vals}}
    IN IF vs \ {Null} = {} THEN {Null} ELSE vs \ {Null}

\* The mapped records build_row_from_item / _upsert_single_item can make of an item.
MappedRecords(m, item) ==
    {[id |-> item.id, raw |-> item, cells |-> cs] :
        cs \in {f \in [MappedColumns(m) -> ItemValues \cup {Null}] :
                   \A c \in MappedColumns(m) : f[c] \in CellCandidates(m, item, c)}}

\* set_cols = [c for c in col_order if c not in ("id", "created_at", "updated_at")]
SetCols(col_order) == col_order \ {ColId, ColCreatedAt, ColUpdatedAt}

\* The row INSERT would add: the record's columns, defaults for the rest.
InsertedRow(rec, cols, now) ==
    [c \in cols |->
        IF c = ColId THEN rec.id
        ELSE IF c = ColRaw THEN rec.raw
        ELSE IF c \in DOMAIN rec.cells THEN rec.cells[c]
        ELSE IF c \in {ColCreatedAt, ColUpdatedAt} THEN now
        ELSE Null]

\* ON CONFLICT ("id") DO UPDATE SET <set_cols> = EXCLUDED.<col>, updated_at = now()
UpdatedRow(row, rec, cols, now) ==
    LET excluded == InsertedRow(rec, cols, now) IN
    [c \in cols |->
        IF c = ColUpdatedAt THEN now
        ELSE IF c \in SetCols({ColId, ColRaw} \cup DOMAIN rec.cells) THEN excluded[c]
        ELSE row[c]]

\* upsert_rows into a table without the unique index: every row is inserted.
UpsertRowsNoConflict(tab, rec, cols, now) == Append(tab, InsertedRow(rec, cols, now))

\* upsert_rows of one row into a table with the unique index on id.
UpsertRows(tab, rec, cols, now) ==
    IF \E k \in 1..Len(tab) : tab[k][ColId] = rec.id
    THEN [k \in 1..Len(tab) |->
             IF tab[k][ColId] = rec.id THEN UpdatedRow(tab[k], rec, cols, now)
             ELSE tab[k]]
    ELSE Append(tab, InsertedRow(rec, cols, now))

\* The rows of id i, updated_at left out.
RowsOf(tab, i) ==
    LET ks == {k \in 1..Len(tab) : tab[k][ColId] = i}
        keep == DOMAIN tab[CHOOSE k \in ks : TRUE] \ {ColUpdatedAt}
    IN IF ks = {} THEN <<>>
       ELSE [j \in 1..Cardinality(ks) |->
                LET k == SortedSeq(ks)[j] IN [c \in keep |-> tab[k][c]]]

NoRecord == [id |-> 0, raw |-> Null, cells |-> <<>>]

\* A synced table: the schema of one sync_schema run over fs, no rows yet.
SchemaInitWith(fs) ==
    /\ fields = fs
    /\ deal_fields = fs
    /\ deal_colmap = BuildColmap(fs)
    /\ meta = UpsertMetaFields({}, BuildColmap(fs))
    /\ columns = EnsureColumns({}, BuildColmap(fs))

TableInit ==
    /\ utable = <<>>
    /\ uclock = 0
    /\ uprev = NoRecord
    /\ usnap = <<>>
    /\ urepeat = FALSE

\* Nothing of this entity has been synced: no schema, no rows.
SchemaQuiet ==
    /\ fields = <<>>
    /\ deal_fields = <<>>
    /\ deal_colmap = {}
    /\ meta = {}
    /\ columns = {}

\* Bound of the schema model: the number of remote fields of the entity.
MaxFields == 3

\* The remote field names: ID is a standard field, the others stand for
\* user fields whose names differ in case or end in a number.
FieldNames == {<<"I", "D">>, <<"X">>, <<"x">>, <<"X", "_", "2">>}

FieldSet(fs) == {fs[k] : k \in 1..Len(fs)}

\* Upstream, a field is added to the entity at position k of crm.deal.fields.
FieldAdded(f, k) ==
    /\ Len(fields) < MaxFields
    /\ f \notin FieldSet(fields)
    /\ k \in 1..(Len(fields) + 1)
    /\ fields' = SubSeq(fields, 1, k - 1) \o <<f>> \o SubSeq(fields, k, Len(fields))
    /\ UNCHANGED <<meta, deal_fields, deal_colmap, columns>>

\* Upstream, the field at position k is removed.
FieldRemoved(k) ==
    /\ k \in 1..Len(fields)
    /\ fields' = SubSeq(fields, 1, k - 1) \o SubSeq(fields, k + 1, Len(fields))
    /\ UNCHANGED <<meta, deal_fields, deal_colmap, columns>>

\* Upstream, the fields at positions k and k + 1 change places.
FieldsReordered(k) ==
    /\ k \in 1..(Len(fields) - 1)
    /\ fields' = [fields EXCEPT ![k] = fields[k + 1], ![k + 1] = fields[k]]
    /\ UNCHANGED <<meta, deal_fields, deal_colmap, columns>>

\* sync_schema for one entity: fetch the fields, compute the colmap from
\* the four base columns, ensure_table_base, ensure_columns, upsert_meta_fields.
SchemaRefresh ==
    /\ deal_fields' = fields
    /\ deal_colmap' = BuildColmap(fields)
    /\ columns' = EnsureColumns(columns, BuildColmap(fields))
    /\ meta' = UpsertMetaFields(meta, BuildColmap(fields))
    /\ UNCHANGED fields

\* One mapped record is upserted (sync passes, _upsert_single_item).
Upsert(item, rec) ==
    /\ rec \in MappedRecords(meta, item)
    /\ MappedColumns(meta) \subseteq columns
    /\ utable' = UpsertRows(utable, rec, columns, uclock)
    /\ urepeat' = (rec = uprev)
    /\ uprev' = rec
    /\ usnap' = IF rec = uprev THEN usnap ELSE RowsOf(utable', rec.id)
    /\ UNCHANGED uclock

\* Time passes in the store.
ClockTick ==
    /\ uclock < MaxClock
    /\ uclock' = uclock + 1
    /\ UNCHANGED <<utable, uprev, usnap, urepeat>>

--------------------------------------------------------------------------
(* ------- sync_entity_data_contact (lead and smart process alike) ------- *)

\* Bound: the largest contact id.
MaxContacts == 5

\* crm.contact.list as b24_list_contacts calls it: order ID ASC, the filter
\* >ID = start only when start > 0, and start as the paging offset, which
\* Bitrix applies to the filtered list in whole pages.
ContactMatches(start) == {i \in cremote : start > 0 => i > start}

ContactOffset(start) == (start \div PageSize) * PageSize

ListContacts(start) ==
    FirstN(ContactMatches(start) \ FirstN(ContactMatches(start), ContactOffset(start)),
           PageSize)

\* "next" of the answer, -1 when Bitrix sends none.
ContactNext(start) ==
    IF Cardinality(ContactMatches(start)) > ContactOffset(start) + PageSize
    THEN ContactOffset(start) + PageSize
    ELSE -1

ContactIdle == [spc |-> "idle", last_offset |-> 0, items |-> {}, nxt |-> -1]

ContactInit ==
    /\ cremote \in (SUBSET (1..MaxContacts)) \ {{}}
    /\ ctable = {}
    /\ ccursor = 0
    /\ cloc = ContactIdle
    /\ cended = FALSE

ContactQuiet ==
    /\ cremote = {}
    /\ ctable = {}
    /\ ccursor = 0
    /\ cloc = ContactIdle
    /\ cended = FALSE

\* sync_entity_data_contact is entered: validate_sync_cursor gives last_offset.
ContactSyncStart ==
    /\ cloc.spc = "idle"
    /\ IF ccursor # 0 /\ CursorIsStale(ccursor, ctable)
       THEN /\ ccursor' = 0
            /\ cloc' = [ContactIdle EXCEPT !.spc = "loop"]
       ELSE /\ cloc' = [ContactIdle EXCEPT !.spc = "loop", !.last_offset = ccursor]
            /\ UNCHANGED ccursor
    /\ UNCHANGED <<cremote, ctable, cended>>

\* Lines 2088-2089: the time budget is used up at the top of the loop.
ContactTimeout ==
    /\ cloc.spc = "loop"
    /\ cloc' = ContactIdle
    /\ UNCHANGED <<cremote, ctable, ccursor, cended>>

\* Lines 2091-2096: one list request; an empty batch stores the cursor and
\* ends the call.
ContactFetch ==
    /\ cloc.spc = "loop"
    /\ IF ListContacts(cloc.last_offset) = {}
       THEN /\ ccursor' = cloc.last_offset
            /\ cloc' = ContactIdle
            /\ cended' = TRUE
       ELSE /\ cloc' = [cloc EXCEPT !.spc = "fetched",
                                    !.items = ListContacts(cloc.last_offset),
                                    !.nxt = ContactNext(cloc.last_offset)]
            /\ UNCHANGED <<ccursor, cended>>
    /\ UNCHANGED <<cremote, ctable>>

\* Lines 2098-2140: the batch is upserted; with a next token the cursor is
\* that token and the loop goes on unless the limit is reached, without one
\* the cursor is the last id seen and the call ends.
ContactUpsert ==
    /\ cloc.spc = "fetched"
    /\ ctable' = ctable \cup cloc.items
    /\ IF cloc.nxt # -1
       THEN /\ ccursor' = cloc.nxt
            /\ \E limit_reached \in BOOLEAN :
                   cloc' = IF limit_reached THEN ContactIdle
                           ELSE [cloc EXCEPT !.spc = "loop", !.last_offset = cloc.nxt,
                                             !.items = {}]
       ELSE /\ ccursor' = SetMax(cloc.items)
            /\ cloc' = ContactIdle
    /\ UNCHANGED <<cremote, cended>>

--------------------------------------------------------------------------
(* ------- A sync pass and the webhook worker on the same record --------- *)

\* Bound: the versions the remote record goes through.
MaxVersion == 4

RaceIdle == [pc |-> "idle", got |-> 0]

RaceInit ==
    /\ rversion = 1
    /\ rstored \in {0, 1}
    /\ rsync = RaceIdle
    /\ rwork = RaceIdle

RaceQuiet ==
    /\ rversion = 1
    /\ rstored = 0
    /\ rsync = RaceIdle
    /\ rwork = RaceIdle

\* The record is edited in Bitrix.
RaceRemoteModify ==
    /\ rversion < MaxVersion
    /\ rversion' = rversion + 1
    /\ UNCHANGED <<rstored, rsync, rwork>>

\* The sync pass lists the record (b24_list_deals in sync_entity_data_deal).
RaceSyncFetch ==
    /\ rsync.pc = "idle"
    /\ rsync' = [pc |-> "fetched", got |-> rversion]
    /\ UNCHANGED <<rversion, rstored, rwork>>

\* upsert_rows of the sync pass: ON CONFLICT (id) DO UPDATE SET every column
\* from the row at hand, whatever the row holds.
RaceSyncUpsert ==
    /\ rsync.pc = "fetched"
    /\ rstored' = rsync.got
    /\ rsync' = [rsync EXCEPT !.pc = "done"]
    /\ UNCHANGED <<rversion, rwork>>

\* The worker gets the record (_bitrix_get_one).
RaceWorkerFetch ==
    /\ rwork.pc = "idle"
    /\ rwork' = [pc |-> "fetched", got |-> rversion]
    /\ UNCHANGED <<rversion, rstored, rsync>>

\* _upsert_single_item of the worker: the same upsert_rows.
RaceWorkerUpsert ==
    /\ rwork.pc = "fetched"
    /\ rstored' = rwork.got
    /\ rwork' = [rwork EXCEPT !.pc = "done"]
    /\ UNCHANGED <<rversion, rsync>>

--------------------------------------------------------------------------
(* ------- One batch: build_row_from_item for each item, one upsert_rows - *)

\* The values Bitrix sends in a batch: "a" stands for a value every column
\* type takes, "abc" for a text that is no number.
BatchValues == {"a", "abc"}

\* map_b24_to_pg_type: the column type of a field.
PgType(f) == IF FieldType(f) = "double" THEN "DOUBLE PRECISION" ELSE "TEXT"

\* PostgreSQL takes the value for a column of that type; normalize_value
\* hands a non-empty string on as it is.
Storable(v, pgtype) == ~(v = "abc" /\ pgtype = "DOUBLE PRECISION")

\* The items of a batch: an id and a value for each remote field.
BatchItems == [id : 1..MaxRecId, vals : [FieldSet(fields) -> BatchValues]]

\* The batches crm.deal.list can return: items with different ids.
Batches ==
    {b \in SUBSET BatchItems :
        /\ b # {}
        /\ Cardinality(b) <= MaxRecId
        /\ \A x, y \in b : x.id = y.id => x = y}

\* build_row_from_item: the mapped record of an item, for a colmap whose
\* column names differ.
RowOfItem(item) ==
    [id |-> item.id, raw |-> item,
     cells |-> [c \in MappedColumns(meta) |->
                   CHOOSE v \in CellCandidates(meta, item, c) : TRUE]]

\* The row of an item has a value its column does not take.
HasBadCell(item) ==
    \E r \in meta : ~Storable(normalize_value(item.vals[r.field], FieldType(r.field)),
                              PgType(r.field))

\* The rows of a batch one after the other, in id order.
RECURSIVE UpsertAll(_, _, _, _)
UpsertAll(tab, ids, batch, now) ==
    IF ids = <<>> THEN tab
    ELSE LET item == CHOOSE it \in batch : it.id = Head(ids)
         IN UpsertAll(UpsertRows(tab, RowOfItem(item), columns, now), Tail(ids), batch, now)

BatchQuiet ==
    /\ bbatch = {}
    /\ bresult = "none"

\* Lines 1983-1997 and upsert_rows: every item becomes a row, one INSERT
\* ... VALUES carries them all (execute_values, page_size=500).  A value the
\* store rejects makes the statement raise: nothing of it is stored, and
\* the exception leaves sync_entity_data_deal.
BatchUpsert(batch) ==
    /\ bbatch' = batch
    /\ IF \E item \in batch : HasBadCell(item)
       THEN /\ bresult' = "raised"
            /\ UNCHANGED utable
       ELSE /\ bresult' = "ok"
            /\ utable' = UpsertAll(utable, SortedSeq({it.id : it \in batch}), batch, uclock)
    /\ <<bbatch', bresult', utable'>> # <<bbatch, bresult, utable>>
    /\ UNCHANGED <<uclock, uprev, usnap, urepeat>>

--------------------------------------------------------------------------
(* ------- sync_schema followed by sync_entity_data_deal ----------------- *)

\* The fields added upstream while refreshes and syncs alternate.
EvolveFieldNames == {<<"X">>, <<"x">>}

\* The item crm.deal.list returns for deal i: a value for every field the
\* entity has upstream at that time.
ItemOf(i) == [id |-> i, vals |-> [f \in FieldSet(fields) |-> "a"]]

EvolveInit ==
    /\ eremote = {1}
    /\ emodified = {1}
    /\ ecursor = 0
    /\ pending = {}
    /\ ephase = "idle"
    /\ synced = FALSE

EvolveQuiet ==
    /\ eremote = {}
    /\ emodified = {}
    /\ ecursor = 0
    /\ pending = {}
    /\ ephase = "idle"
    /\ synced = FALSE

\* Upstream, a field is added to the entity.
EvolveFieldAdded(f, k) ==
    /\ FieldAdded(f, k)
    /\ synced' = FALSE
    /\ UNCHANGED <<eremote, emodified, ecursor, pending, ephase>>

\* ALTER TABLE ... ADD COLUMN IF NOT EXISTS: the rows the table has get
\* NULL in a column that is new.
WithColumns(tab, cols) ==
    [k \in 1..Len(tab) |->
        [c \in cols |-> IF c \in DOMAIN tab[k] THEN tab[k][c] ELSE Null]]

\* sync_schema between two syncs.
EvolveSchemaRefresh ==
    /\ ephase = "idle"
    /\ SchemaRefresh
    /\ utable' = WithColumns(utable, columns')
    /\ synced' = FALSE
    /\ UNCHANGED <<uclock, uprev, usnap, urepeat>>
    /\ UNCHANGED <<eremote, emodified, ecursor, pending, ephase>>

\* Upstream, a deal is created: its id is the next one, it is modified today.
EvolveRemoteCreate ==
    /\ SetMax(eremote \cup {0}) < MaxRecId
    /\ eremote' = eremote \cup {SetMax(eremote \cup {0}) + 1}
    /\ emodified' = emodified \cup {SetMax(eremote \cup {0}) + 1}
    /\ UNCHANGED <<ecursor, pending, ephase, synced>>

\* Upstream, a deal is modified.
EvolveRemoteModify(i) ==
    /\ i \in eremote \ emodified
    /\ emodified' = emodified \cup {i}
    /\ UNCHANGED <<eremote, ecursor, pending, ephase, synced>>

\* Midnight: no deal has been modified today any more.
DayEnds ==
    /\ emodified # {}
    /\ emodified' = {}
    /\ UNCHANGED <<eremote, ecursor, pending, ephase, synced>>

\* sync_entity_data_deal without limit and with time to spare: the forward
\* pass fetches the ids above the cursor (filter >ID), the second pass the
\* deals with DATE_MODIFY >= the start of today.
EvolveSyncStart ==
    /\ ephase = "idle"
    /\ BaseColumns \subseteq columns
    /\ pending' = {i \in eremote : i > ecursor} \cup emodified
    /\ ephase' = "sync"
    /\ UNCHANGED <<eremote, emodified, ecursor, synced>>

\* build_row_from_item and upsert_rows for one fetched deal.
EvolveSyncUpsert(i, rec) ==
    /\ ephase = "sync"
    /\ i \in pending
    /\ Upsert(ItemOf(i), rec)
    /\ pending' = pending \ {i}
    /\ UNCHANGED <<eremote, emodified, ecursor, ephase, synced>>

\* Both passes are through: the cursor is the last id of the forward pass.
EvolveSyncEnd ==
    /\ ephase = "sync"
    /\ pending = {}
    /\ ecursor' = SetMax({i \in 1..MaxRecId : \E k \in 1..Len(utable) : utable[k][ColId] = i}
                         \cup {ecursor})
    /\ ephase' = "idle"
    /\ synced' = TRUE
    /\ UNCHANGED <<eremote, emodified, pending>>

--------------------------------------------------------------------------
(* ------------------------- Specifications ------------------------------ *)

\* What each part of the program leaves alone.
outsideClient == <<syncVars, queueVars, schedVars, schemaVars, tableVars, endpointVars, evolveVars, budgetVars, batchVars, contactVars, raceVars>>

outsideSync == <<clientVars, queueVars, schedVars, schemaVars, tableVars, endpointVars, evolveVars, budgetVars, batchVars, contactVars, raceVars>>

outsideQueue == <<clientVars, syncVars, schedVars, schemaVars, tableVars, endpointVars, evolveVars, budgetVars, batchVars, contactVars, raceVars>>

outsideTable == <<clientVars, syncVars, queueVars, schedVars, schemaVars, endpointVars, evolveVars, budgetVars, batchVars, contactVars, raceVars>>

outsideSched == <<clientVars, syncVars, queueVars, schemaVars, tableVars, endpointVars, evolveVars, budgetVars, batchVars, contactVars, raceVars>>

outsideEndpoint == <<clientVars, syncVars, schedVars, schemaVars, tableVars, evolveVars, budgetVars, batchVars, contactVars, raceVars>>

outsideEvolve == <<clientVars, syncVars, queueVars, schedVars, endpointVars, budgetVars, batchVars, contactVars, raceVars>>

outsideBudget == <<clientVars, syncVars, queueVars, schedVars, schemaVars, tableVars, endpointVars, evolveVars, batchVars, contactVars, raceVars>>

outsideBatch == <<clientVars, syncVars, queueVars, schedVars, schemaVars, endpointVars, evolveVars, budgetVars, contactVars, raceVars>>

outsideContact == <<clientVars, syncVars, queueVars, schedVars, schemaVars, tableVars, endpointVars, evolveVars, budgetVars, batchVars, raceVars>>

outsideRace == <<clientVars, syncVars, queueVars, schedVars, schemaVars, tableVars, endpointVars, evolveVars, budgetVars, batchVars, contactVars>>

outsideSchema == <<clientVars, syncVars, queueVars, schedVars, tableVars, endpointVars, evolveVars, budgetVars, batchVars, contactVars, raceVars>>

ClientNext ==
    \/ (\E t \in callers : CallStart(t)) /\ UNCHANGED outsideClient
    \/ (\E t \in callers : ThrottleRead(t)) /\ UNCHANGED outsideClient
    \/ (\E t \in callers : ThrottleWake(t)) /\ UNCHANGED outsideClient
    \/ (\E t \in callers : Post(t)) /\ UNCHANGED outsideClient
    \/ (\E t \in callers, r \in Responses : Respond(t, r)) /\ UNCHANGED outsideClient
    \/ (\E t \in callers : BackoffWake(t)) /\ UNCHANGED outsideClient
    \/ (Tick) /\ UNCHANGED outsideClient
    \/ (SleepElapses) /\ UNCHANGED outsideClient

SyncNext ==
    \/ (RemoteCreate) /\ UNCHANGED outsideSync
    \/ (\E i \in Ids : RemoteModify(i)) /\ UNCHANGED outsideSync
    \/ (\E s \in syncers, l \in Limits : SyncStart(s, l)) /\ UNCHANGED outsideSync
    \/ (\E s \in syncers : Validate(s)) /\ UNCHANGED outsideSync
    \/ (\E s \in syncers : ValidateStoreError(s)) /\ UNCHANGED outsideSync
    \/ (\E s \in syncers : ForwardTimeout(s)) /\ UNCHANGED outsideSync
    \/ (\E s \in syncers, o \in BOOLEAN : ForwardFetch(s, o)) /\ UNCHANGED outsideSync
    \/ (\E s \in syncers : FetchRaises(s)) /\ UNCHANGED outsideSync
    \/ (\E s \in syncers : UpsertBatch(s)) /\ UNCHANGED outsideSync
    \/ (\E s \in syncers : UpsertFails(s)) /\ UNCHANGED outsideSync
    \/ (\E s \in syncers : PersistCursor(s)) /\ UNCHANGED outsideSync
    \/ (\E s \in syncers : PersistFails(s)) /\ UNCHANGED outsideSync
    \/ (\E s \in syncers, o \in BOOLEAN : TodayFetch(s, o)) /\ UNCHANGED outsideSync
    \/ (\E s \in syncers : TodayStops(s)) /\ UNCHANGED outsideSync
    \/ (\E s \in syncers : TodayTimeout(s)) /\ UNCHANGED outsideSync
    \/ (\E s \in syncers : TodayUpsert(s)) /\ UNCHANGED outsideSync
    \/ (\E s \in syncers : TodayUpsertFails(s)) /\ UNCHANGED outsideSync
    \/ (\E s \in syncers : SyncReturn(s)) /\ UNCHANGED outsideSync
    \/ (\E s \in syncers : SyncReturnFails(s)) /\ UNCHANGED outsideSync
    \/ (\E s \in syncers : Crash(s)) /\ UNCHANGED outsideSync

\* The initial sync and a scheduler cycle (or an endpoint's sync) inside
\* sync_entity_data_deal at once, every remote call and statement succeeding.
OverlapNext ==
    \/ (\E s \in syncers, l \in Limits : SyncStart(s, l)) /\ UNCHANGED outsideSync
    \/ (\E s \in syncers : Validate(s)) /\ UNCHANGED outsideSync
    \/ (\E s \in syncers : ForwardFetch(s, FALSE)) /\ UNCHANGED outsideSync
    \/ (\E s \in syncers : UpsertBatch(s)) /\ UNCHANGED outsideSync
    \/ (\E s \in syncers : PersistCursor(s)) /\ UNCHANGED outsideSync
    \/ (\E s \in syncers : TodayFetch(s, FALSE)) /\ UNCHANGED outsideSync
    \/ (\E s \in syncers : SyncReturn(s)) /\ UNCHANGED outsideSync

QueueNext ==
    \/ (\E e \in Entities, ev \in EventNames : Enqueue(e, ev)) /\ UNCHANGED outsideQueue
    \/ (EnqueueInsertFails) /\ UNCHANGED outsideQueue
    \/ (WSelect) /\ UNCHANGED outsideQueue
    \/ (WMark) /\ UNCHANGED outsideQueue
    \/ (WDeleteDone) /\ UNCHANGED outsideQueue
    \/ (WFetchNone) /\ UNCHANGED outsideQueue
    \/ (WFetchItem) /\ UNCHANGED outsideQueue
    \/ (WUpsertOk) /\ UNCHANGED outsideQueue
    \/ (WFinalDone) /\ UNCHANGED outsideQueue
    \/ (WUpsertFalse) /\ UNCHANGED outsideQueue
    \/ (WException) /\ UNCHANGED outsideQueue
    \/ (QTick) /\ UNCHANGED outsideQueue

\* The endpoint alone: notifications arrive, the worker is not looked at.
EndpointNext ==
    \/ (\E e \in Entities, ev \in EventNames : Enqueue(e, ev)) /\ UNCHANGED outsideQueue
    \/ (EnqueueInsertFails) /\ UNCHANGED outsideQueue
    \/ (\E n \in Notifications : EndpointRejects(n)) /\ UNCHANGED outsideEndpoint

EvolveNext ==
    \/ (\E f \in EvolveFieldNames : \E k \in 1..MaxFields : EvolveFieldAdded(f, k))
           /\ UNCHANGED <<outsideEvolve, tableVars>>
    \/ (EvolveSchemaRefresh) /\ UNCHANGED outsideEvolve
    \/ (EvolveRemoteCreate) /\ UNCHANGED <<outsideEvolve, schemaVars, tableVars>>
    \/ (\E i \in 1..MaxRecId : EvolveRemoteModify(i))
           /\ UNCHANGED <<outsideEvolve, schemaVars, tableVars>>
    \/ (DayEnds) /\ UNCHANGED <<outsideEvolve, schemaVars, tableVars>>
    \/ (EvolveSyncStart) /\ UNCHANGED <<outsideEvolve, schemaVars, tableVars>>
    \/ (\E i \in 1..MaxRecId : \E rec \in MappedRecords(meta, ItemOf(i)) : EvolveSyncUpsert(i, rec))
           /\ UNCHANGED <<outsideEvolve, schemaVars>>
    \/ (EvolveSyncEnd) /\ UNCHANGED <<outsideEvolve, schemaVars, tableVars>>

BudgetNext ==
    \/ (SplitBudget) /\ UNCHANGED outsideBudget
    \/ (\E b \in 1..MaxBudget, n \in 0..MaxSmart : NextBudgetCall(b, n))
           /\ UNCHANGED outsideBudget

BatchNext ==
    \/ (\E batch \in Batches : BatchUpsert(batch)) /\ UNCHANGED outsideBatch
    \/ (ClockTick) /\ UNCHANGED <<outsideBatch, batchVars>>

ContactSyncNext ==
    \/ (ContactSyncStart) /\ UNCHANGED outsideContact
    \/ (ContactTimeout) /\ UNCHANGED outsideContact
    \/ (ContactFetch) /\ UNCHANGED outsideContact
    \/ (ContactUpsert) /\ UNCHANGED outsideContact

RaceNext ==
    \/ (RaceRemoteModify) /\ UNCHANGED outsideRace
    \/ (RaceSyncFetch) /\ UNCHANGED outsideRace
    \/ (RaceSyncUpsert) /\ UNCHANGED outsideRace
    \/ (RaceWorkerFetch) /\ UNCHANGED outsideRace
    \/ (RaceWorkerUpsert) /\ UNCHANGED outsideRace

SchedNext ==
    \/ (\E night \in BOOLEAN : BgTick(night)) /\ UNCHANGED outsideSched
    \/ (InitialSyncStart) /\ UNCHANGED outsideSched
    \/ (\E p \in SyncDataCallers : EndpointSyncStart(p)) /\ UNCHANGED outsideSched
    \/ (\E p \in SyncDataCallers : StageDone(p)) /\ UNCHANGED outsideSched
    \/ (\E p \in SyncDataCallers : StageRaises(p)) /\ UNCHANGED outsideSched
    \/ (BgRelease) /\ UNCHANGED outsideSched

UpsertNext ==
    \/ (\E item \in Items(fields) : \E rec \in MappedRecords(meta, item) : Upsert(item, rec))
           /\ UNCHANGED outsideTable
    \/ (ClockTick) /\ UNCHANGED outsideTable

SchemaNext ==
    \/ (\E f \in FieldNames : \E k \in 1..MaxFields : FieldAdded(f, k))
           /\ UNCHANGED outsideSchema
    \/ (\E k \in 1..MaxFields : FieldRemoved(k)) /\ UNCHANGED outsideSchema
    \/ (\E k \in 1..MaxFields : FieldsReordered(k)) /\ UNCHANGED outsideSchema
    \/ (SchemaRefresh) /\ UNCHANGED outsideSchema

\* Both threads of a normal start share the client.
InitClient == ClientInitWith(Threads) /\ SyncQuiet /\ QueueInit /\ SchedQuiet /\ SchemaQuiet /\ TableInit /\ EndpointQuiet /\ EvolveQuiet /\ BudgetQuiet /\ BatchQuiet /\ ContactQuiet /\ RaceQuiet

SpecClient == InitClient /\ [][ClientNext]_vars

\* One caller alone: the retry loop of a single call.
InitCall == ClientInitWith({"background_loop"}) /\ SyncQuiet /\ QueueInit /\ SchedQuiet /\ SchemaQuiet /\ TableInit /\ EndpointQuiet /\ EvolveQuiet /\ BudgetQuiet /\ BatchQuiet /\ ContactQuiet /\ RaceQuiet

SpecCall == InitCall /\ [][ClientNext]_vars

\* Successive calls of sync_entity_data_deal against a changing Bitrix.
InitSync == ClientInitWith({}) /\ SyncInitWith({"background_loop"}, 1..(MaxId - 1), InitCursors) /\ QueueInit /\ SchedQuiet /\ SchemaQuiet /\ TableInit /\ EndpointQuiet /\ EvolveQuiet /\ BudgetQuiet /\ BatchQuiet /\ ContactQuiet /\ RaceQuiet

SpecSync == InitSync /\ [][SyncNext]_vars

\* Two threads in sync_entity_data_deal against a fixed set of deals.
InitOverlap == ClientInitWith({}) /\ SyncInitWith(Threads, Ids, {0}) /\ QueueInit /\ SchedQuiet /\ SchemaQuiet /\ TableInit /\ EndpointQuiet /\ EvolveQuiet /\ BudgetQuiet /\ BatchQuiet /\ ContactQuiet /\ RaceQuiet

SpecOverlap == InitOverlap /\ [][OverlapNext]_vars

\* The webhook endpoint and the queue worker of a WEBHOOK_ONLY start.
InitQueue == ClientInitWith({}) /\ SyncQuiet /\ QueueInit /\ SchedQuiet /\ SchemaQuiet /\ TableInit /\ EndpointQuiet /\ EvolveQuiet /\ BudgetQuiet /\ BatchQuiet /\ ContactQuiet /\ RaceQuiet

SpecQueue == InitQueue /\ [][QueueNext]_vars

\* The steps the worker thread takes by itself when no statement raises.
WorkerStep ==
    (WSelect \/ WMark \/ WDeleteDone \/ WFetchNone \/ WFetchItem \/ WUpsertOk
        \/ WFinalDone \/ WUpsertFalse) /\ UNCHANGED outsideQueue

\* The queue with a worker thread that keeps running (it is a loop that
\* sleeps and goes on after every exception) and time that keeps passing.
SpecQueueLive ==
    /\ InitQueue
    /\ [][QueueNext]_vars
    /\ WF_vars(WorkerStep)
    /\ WF_vars(QTick /\ UNCHANGED outsideQueue)

\* Notifications of every kind reaching the webhook endpoint.
InitEndpoint == ClientInitWith({}) /\ SyncQuiet /\ QueueInit /\ SchedQuiet /\ SchemaQuiet /\ TableInit /\ EndpointQuiet /\ EvolveQuiet /\ BudgetQuiet /\ BatchQuiet /\ ContactQuiet /\ RaceQuiet

SpecEndpoint == InitEndpoint /\ [][EndpointNext]_vars

\* Schema refreshes and deal syncs in turn while fields and deals are
\* added upstream, from a first start with one deal in Bitrix.
InitEvolve ==
    /\ ClientInitWith({}) /\ SyncQuiet /\ QueueInit /\ SchedQuiet
    /\ SchemaQuiet /\ TableInit /\ EndpointQuiet /\ EvolveInit /\ BudgetQuiet /\ BatchQuiet /\ ContactQuiet /\ RaceQuiet

SpecEvolve == InitEvolve /\ [][EvolveNext]_vars

\* sync_data called with budgets from one second up, for every number of
\* smart-process types.
InitBudget ==
    /\ ClientInitWith({}) /\ SyncQuiet /\ QueueInit /\ SchedQuiet
    /\ SchemaQuiet /\ TableInit /\ EndpointQuiet /\ EvolveQuiet /\ BudgetInit /\ BatchQuiet /\ ContactQuiet /\ RaceQuiet

SpecBudget == InitBudget /\ [][BudgetNext]_vars

\* Batches upserted into a table whose schema was synced once, for the
\* fields X (string, column x) and x (double, column x_2).
InitBatch ==
    /\ ClientInitWith({}) /\ SyncQuiet /\ QueueInit /\ SchedQuiet
    /\ SchemaInitWith(<<(<<"X">>), (<<"x">>)>>) /\ TableInit /\ EndpointQuiet
    /\ EvolveQuiet /\ BudgetQuiet /\ BatchQuiet /\ ContactQuiet /\ RaceQuiet

SpecBatch == InitBatch /\ [][BatchNext]_vars

\* Contact syncs one after the other against a set of contacts that does
\* not change, from an empty table.
InitContact ==
    /\ ClientInitWith({}) /\ SyncQuiet /\ QueueInit /\ SchedQuiet
    /\ SchemaQuiet /\ TableInit /\ EndpointQuiet /\ EvolveQuiet /\ BudgetQuiet
    /\ BatchQuiet /\ ContactInit /\ RaceQuiet

SpecContact == InitContact /\ [][ContactSyncNext]_vars

\* One sync pass and one worker job for the same record id, the record
\* being edited in Bitrix meanwhile.
InitRace ==
    /\ ClientInitWith({}) /\ SyncQuiet /\ QueueInit /\ SchedQuiet
    /\ SchemaQuiet /\ TableInit /\ EndpointQuiet /\ EvolveQuiet /\ BudgetQuiet
    /\ BatchQuiet /\ ContactQuiet /\ RaceInit

SpecRace == InitRace /\ [][RaceNext]_vars

\* A normal start (not WEBHOOK_ONLY) with the sync endpoints in use.
InitSched == ClientInitWith({}) /\ SyncQuiet /\ QueueInit /\ SchedInitWith(BOOLEAN) /\ SchemaQuiet /\ TableInit /\ EndpointQuiet /\ EvolveQuiet /\ BudgetQuiet /\ BatchQuiet /\ ContactQuiet /\ RaceQuiet

SpecSched == InitSched /\ [][SchedNext]_vars

\* Records upserted into a table whose schema was synced once, for the
\* fields X and x (columns x and x_2).
InitUpsert ==
    /\ ClientInitWith({}) /\ SyncQuiet /\ QueueInit /\ SchedQuiet
    /\ SchemaInitWith(<<(<<"X">>), (<<"x">>)>>) /\ TableInit /\ EndpointQuiet /\ EvolveQuiet /\ BudgetQuiet /\ BatchQuiet /\ ContactQuiet /\ RaceQuiet

SpecUpsert == InitUpsert /\ [][UpsertNext]_vars

\* Schema refreshes of an entity whose fields change upstream, from a
\* first start: no field known, no table yet.
InitSchema ==
    /\ ClientInitWith({}) /\ SyncQuiet /\ QueueInit /\ SchedQuiet
    /\ SchemaQuiet /\ TableInit /\ EndpointQuiet /\ EvolveQuiet /\ BudgetQuiet /\ BatchQuiet /\ ContactQuiet /\ RaceQuiet

SpecSchema == InitSchema /\ [][SchemaNext]_vars

--------------------------------------------------------------------------
(* ---------------- Properties of BitrixClient --------------------------- *)

\* C1: any two consecutive outbound requests of the shared client are at
\* least BITRIX_MIN_REQUEST_INTERVAL_SEC apart, whatever the number of
\* threads inside call.  (_throttle reads and writes _last_call_ts without
\* a lock: two threads that read it before either writes both go ahead.)
C1_MinSpacing == last_gap >= BITRIX_MIN_REQUEST_INTERVAL_SEC

\* C10: one call sends at most BITRIX_MAX_RETRIES requests; while every
\* response is a 429 or a *LIMIT* error code, the sleep after attempt i
\* (from 0) is BITRIX_BACKOFF_BASE_SEC * 2^i, and such a call ends, after
\* BITRIX_MAX_RETRIES requests, with the retry-limit error, not a result.
C10_BoundedRetries ==
    \A t \in Threads :
        /\ nreq[t] <= BITRIX_MAX_RETRIES
        /\ (allthr[t] /\ nreq[t] > 0) =>
              /\ Len(waits[t]) = IF cpc[t] = "waitresp" THEN nreq[t] - 1 ELSE nreq[t]
              /\ \A i \in 1..Len(waits[t]) :
                     waits[t][i] = BITRIX_BACKOFF_BASE_SEC * Pow2(i - 1)
              /\ cpc[t] = "done" =>
                     /\ outcome[t] = "retry_limit"
                     /\ nreq[t] = BITRIX_MAX_RETRIES

\* C10 witness: a call answered by throttling every time has given up.
C10_Witness ==
    \E t \in Threads :
        /\ cpc[t] = "done"
        /\ allthr[t]
        /\ nreq[t] = BITRIX_MAX_RETRIES
        /\ Len(waits[t]) = BITRIX_MAX_RETRIES
        /\ outcome[t] = "retry_limit"

\* The overload signal: OVERLOAD_LIMIT in an HTTP 401 body or in the error
\* field of a 200 body.
OverloadSignals == {"http401_overload", "err_overload"}

\* C11: a response carrying the overload signal ends the call at once with
\* the empty result, on whichever attempt it arrives: no exception, no
\* further request, no backoff sleep after it.
C11_OverloadReturnsEmpty ==
    \A t \in Threads :
        lastresp[t] \in OverloadSignals =>
            /\ cpc[t] = "done"
            /\ outcome[t] = "empty"
            /\ Len(waits[t]) = nreq[t] - 1
            /\ rem[t] = 0

\* C11 witness: the overload signal arrived on a later attempt of a call.
C11_Witness ==
    \E t \in Threads :
        /\ lastresp[t] \in OverloadSignals
        /\ cpc[t] = "done"
        /\ nreq[t] > 1

\* The remote-reported errors that are neither throttling nor overload: an
\* HTTP status other than 200 and 429, another error code in a 200 body.
RejectedResponses == {"http401_other", "http_other", "err_other"}

\* C12: a response reporting an error other than throttling and overload
\* ends the call at once with an exception: one request for it, no sleep
\* and no further attempt after it.
C12_OtherErrorsNotRetried ==
    \A t \in Threads :
        lastresp[t] \in RejectedResponses =>
            /\ cpc[t] = "done"
            /\ outcome[t] = "http_error"
            /\ Len(waits[t]) = nreq[t] - 1
            /\ rem[t] = 0

\* C12 witness: a call has ended on an error code that is not a limit code.
C12_Witness ==
    \E t \in Threads :
        /\ lastresp[t] = "err_other"
        /\ cpc[t] = "done"
        /\ outcome[t] = "http_error"
        /\ nreq[t] >= 1

--------------------------------------------------------------------------
(* ---------------- Properties of sync_entity_data_deal ------------------ *)

\* C2: the persisted deal cursor never decreases from the end of one sync
\* call that completed successfully with rows to the end of the next one.
C2_CursorMonotonic == end_last >= end_prev

\* C3: in every reachable state, also after a crash or a store failure,
\* every record the forward pass was given whose id is at most the
\* persisted cursor is in the local table; and a call that ends between
\* receiving a batch and committing its upsert leaves the cursor as it was.
C3_CursorAfterUpsert ==
    /\ [](\A i \in given : i <= cursor => i \in dtable)
    /\ [][\A s \in Threads :
             (loc[s].spc = "fetched" /\ loc'[s].spc = "idle") => cursor' = cursor]_vars

\* C3 witness: a batch was received and its upsert never committed, after
\* an earlier batch had moved the cursor.
C3_Witness ==
    /\ cursor > 0
    /\ \A s \in Threads : loc[s].spc = "idle"
    /\ \E i \in given : i > cursor /\ i \notin dtable

C21_RaiseKeepsCursor ==
    /\ [][\A s \in Threads :
             (loc'[s].raised /\ ~loc[s].raised) =>
                 /\ loc'[s].spc = "idle"
                 /\ cursor' = cursor
                 /\ dtable' = dtable]_vars
    /\ [](\A s \in syncers :
             loc[s].spc \in {"forward", "today"} => cursor = loc[s].last_id)

\* C21 witness: a list request raised after a batch had been upserted and
\* its cursor stored, with deals above the cursor still to fetch.
C21_Witness ==
    \E s \in syncers :
        /\ loc[s].raised
        /\ cursor > 0
        /\ cursor \in dtable
        /\ \E i \in remote : i > cursor /\ i \notin dtable

\* C24: the forward pass sends no list request after it met an empty
\* batch, a batch shorter than a page, a positive limit reached by the rows
\* upserted, or a used-up time budget at the loop check; and with a limit of
\* 0 or less a full batch is always followed by the next request's loop check.
C24_ForwardPassStops ==
    /\ [][\A s \in Threads : loc'[s].freq = loc[s].freq + 1 => ~loc[s].fstop]_vars
    /\ [][\A s \in Threads :
             (/\ loc[s].spc = "upserted"
              /\ loc'[s].spc \in {"forward", "today"}
              /\ _is_unlimited(loc[s].limit)
              /\ ~ShortBatch(loc[s])) => loc'[s].spc = "forward"]_vars

\* C24 witness: a call without a record limit went on after a full batch
\* and ended its forward pass on the request after it.
C24_Witness ==
    \E s \in syncers :
        /\ _is_unlimited(loc[s].limit)
        /\ loc[s].freq >= 2
        /\ loc[s].fstop
        /\ loc[s].spc = "today"
        /\ ~loc[s].timed_out

--------------------------------------------------------------------------
(* ---------------- Properties of the webhook queue ---------------------- *)

\* A row the worker has not finished with.
Unprocessed(r) == r.status \notin {"done", "error"}

\* C5: the queue never holds two unprocessed rows for the same
\* (entity_key, entity_id).
C5_OnePendingPerEntity ==
    \A i, j \in 1..Len(queue) :
        (i # j /\ Unprocessed(queue[i]) /\ Unprocessed(queue[j])) =>
            <<queue[i].ek, queue[i].eid>> # <<queue[j].ek, queue[j].eid>>

\* The status changes the state machine allows.
AllowedStatusSteps ==
    {<<"new", "processing">>, <<"processing", "done">>, <<"processing", "retry">>,
     <<"retry", "processing">>, <<"processing", "error">>, <<"retry", "error">>,
     <<"new", "done">>}

\* C6: every event's status is one of new, processing, done, retry, error;
\* it changes only along the allowed steps (new->done for delete events
\* only); done and error are never left.
C6_StatusMachine ==
    /\ [](\A i \in 1..Len(queue) :
             queue[i].status \in {"new", "processing", "done", "retry", "error"})
    /\ [][\A i \in 1..Len(queue) :
             queue'[i].status # queue[i].status =>
                 /\ <<queue[i].status, queue'[i].status>> \in AllowedStatusSteps
                 /\ <<queue[i].status, queue'[i].status>> = <<"new", "done">> =>
                        IsDeleteEvent(queue[i].ev)]_vars

\* C6 witness: an event that went new, processing, retry, processing, done.
C6_Witness ==
    \E i \in 1..Len(queue) : queue[i].status = "done" /\ queue[i].attempts > 0

\* C7: there is a retry ceiling (at most MaxAttempts) such that an event
\* that has failed that many times is in status error, out of the worker's reach.
C7_RetryCeiling ==
    \E ceiling \in 1..MaxAttempts :
        \A i \in 1..Len(queue) :
            queue[i].attempts >= ceiling =>
                queue[i].status = "error" /\ ~IsDue(queue[i])

\* C8: the step that ends a delete event takes the row from new to done,
\* leaves the entity's local table without the row of that id, and no
\* remote fetch was made for the event.
C8_DeleteRemovesRow ==
    [][\A i \in 1..Len(queue) :
          (IsDeleteEvent(queue[i].ev) /\ queue[i].status # "done"
                                      /\ queue'[i].status = "done") =>
              /\ queue[i].status = "new"
              /\ <<queue[i].ek, queue[i].eid>> \notin etable'
              /\ i \notin fetched']_vars

\* C14: the delay set at an event's k-th consecutive failure is the first
\* failure's delay doubled k-1 times, held at the cap once it is reached,
\* and so never above the cap.
C14_BackoffDoubles ==
    [][\A i \in 1..Len(queue) :
          queue'[i].attempts = queue[i].attempts + 1 =>
              queue'[i].due_in =
                  Min2(BackoffCapSec, WebhookBackoff(0) * Pow2(queue[i].attempts))]_vars

\* The notifications C19 is about: the body is read, and the event maps to
\* no entity, or a dynamic event carries no entity type id, or the id is
\* missing or no integer.
Unrecognized(n) ==
    /\ n.body_ok
    /\ \/ ~IsDynamicEvent(n.event) /\ EntityKeyOfEvent(n.event) = ""
       \/ IsDynamicEvent(n.event) /\ n.type_id = ""
       \/ ~IsIntText(n.id)

\* C19: the endpoint answers an unrecognized notification with ok and not
\* queued, and the step adds no row to b24_webhook_queue and changes none,
\* so the worker never has a row of it to retry.
C19_UnrecognizedDropped ==
    [][\A n \in Notifications :
          (answered' # answered /\ answered'.notif = n /\ Unrecognized(n)) =>
              /\ answered'.ok
              /\ ~answered'.queued
              /\ queue' = queue]_vars

\* C26: the worker marks a row processing only when its status is new or
\* retry and its next_run_at has come; a row in done never changes again.
C26_OnlyDueEventsProcessed ==
    [][\A i \in 1..Len(queue) :
          /\ (queue'[i].status = "processing" /\ queue[i].status # "processing") =>
                 /\ queue[i].status \in {"new", "retry"}
                 /\ queue[i].due_in = 0
          /\ queue[i].status = "done" => queue'[i] = queue[i]]_vars

\* C26 witness: a row that failed once is being processed again, its delay
\* over, while another row is done.
C26_Witness ==
    /\ \E i \in 1..Len(queue) :
          queue[i].status = "processing" /\ queue[i].attempts >= 1 /\ queue[i].due_in = 0
    /\ \E i \in 1..Len(queue) : queue[i].status = "done"

\* C28: every row the worker has marked processing leaves that status
\* later on, also when a statement of the loop raised in between.
C28_ProcessingLeaves ==
    \A i \in 1..MaxQueue :
        (i <= Len(queue) /\ queue[i].status = "processing")
            ~> (i <= Len(queue) /\ queue[i].status # "processing")

\* C29: the endpoint's last answer says queued only when the INSERT of the
\* queue row for that notification went through.
C29_QueuedMeansInserted == last_resp.queued => last_resp.inserted

--------------------------------------------------------------------------
(* ---------------- Properties of the sync scheduling -------------------- *)

\* C9: at most one thread is inside sync_data at any time.
C9_NoOverlappingCycles ==
    Cardinality({p \in SyncDataCallers : InSyncData(p)}) <= 1

\* C18: in a sync_data call, the sync of deals, contacts or leads is always
\* followed by the sync of the next entity type, also when it ended with an
\* exception that a rejected Bitrix call raised.
C18_RemainingEntitiesRun ==
    [][\A p \in SyncDataCallers :
          (stage[p] \in {"deal", "contact", "lead"} /\ stage'[p] # stage[p]) =>
              stage'[p] = StageOrder[StageIndex(stage[p]) + 1]]_vars

\* C23: the budgets handed to the deal, contact and lead syncs and to the
\* smart_n smart-process syncs add up to at most time_budget_sec.
C23_BudgetsWithinTotal ==
    handed # NotSplit =>
        handed.t0 + handed.t1 + handed.t2 + smart_n * handed.per_smart <= time_budget_sec

--------------------------------------------------------------------------
(* ---------------- Properties of the entity table ----------------------- *)

\* C13: when a mapped record is upserted twice in a row, the table holds
\* exactly one row of its id, and that row is, in every column but
\* updated_at, what it was after the first of the two upserts.
C13_UpsertIdempotent ==
    urepeat =>
        /\ Len(RowsOf(utable, uprev.id)) = 1
        /\ RowsOf(utable, uprev.id) = usnap

\* C13 witness: a record was upserted again at a later time of the store.
C13_Witness ==
    /\ urepeat
    /\ \E k \in 1..Len(utable) :
          /\ utable[k][ColId] = uprev.id
          /\ utable[k][ColUpdatedAt] > utable[k][ColCreatedAt]

--------------------------------------------------------------------------
(* ---------------- Properties of sync_schema ---------------------------- *)

ColumnOf(f) == (CHOOSE c \in deal_colmap : c.field = f).column

\* The columns taken when field k of the refresh is named: the base columns
\* and the columns of the fields declared before it.
TakenBefore(k) == BaseColumns \cup {ColumnOf(deal_fields[j]) : j \in 1..(k - 1)}

\* The columns of one refresh are distinct and none is a base column.
ColmapDistinct ==
    /\ \A a, b \in deal_colmap : a.column = b.column => a = b
    /\ \A a \in deal_colmap : a.column \notin BaseColumns

\* C15 as stated: in one refresh the columns are distinct and none is a base
\* column, and a field whose sanitized name x is not a base column gets x
\* when it is the first declared field sanitizing to x, x_2 when
\* it is the second, x_3 when it is the third.
C15_DeclarationOrderSuffixes ==
    /\ ColmapDistinct
    /\ \A k \in 1..Len(deal_fields) :
          LET base == sanitize_ident(deal_fields[k])
              n == Cardinality({j \in 1..(k - 1) : sanitize_ident(deal_fields[j]) = base})
          IN base \notin BaseColumns =>
                ColumnOf(deal_fields[k]) = IF n = 0 THEN base ELSE Suffixed(base, n + 1)

\* C15 amended: in one refresh the columns are distinct and none is a base
\* column, and each field gets, in declaration order, its sanitized name x
\* when no base column and no earlier field of the refresh has it, else the
\* first of x_2, x_3, ... that none of them has.
C15_FirstFreeName ==
    /\ ColmapDistinct
    /\ \A k \in 1..Len(deal_fields) :
          LET base == sanitize_ident(deal_fields[k])
              col == ColumnOf(deal_fields[k])
          IN /\ col \notin TakenBefore(k)
             /\ \/ col = base
                \/ /\ base \in TakenBefore(k)
                   /\ \E i \in 2..9 :
                         /\ col = Suffixed(base, i)
                         /\ \A j \in 2..(i - 1) : Suffixed(base, j) \in TakenBefore(k)

\* C15 witness: a refresh of three fields of which the last sanitizes to the
\* name of the first and finds the suffix 2 taken as well.
C15_Witness ==
    /\ Len(deal_fields) = 3
    /\ sanitize_ident(deal_fields[3]) = sanitize_ident(deal_fields[1])
    /\ ColumnOf(deal_fields[3]) = Suffixed(sanitize_ident(deal_fields[3]), 3)

\* C16: no two rows of b24_meta_fields of the entity have the same column_name.
C16_MetaColumnUnique ==
    \A a, b \in meta : a.column = b.column => a = b

\* C22: a field that has a row in b24_meta_fields keeps the column_name of
\* that row at every step.
C22_MappingStable ==
    [][\A a \in meta : \A b \in meta' : a.field = b.field => a.column = b.column]_vars

\* C17: a column of the entity table stays a column of it at every step.
C17_ColumnsOnlyGrow == [][columns \subseteq columns']_vars

\* C17 witness: after a refresh that followed the removal of a field, the
\* table has a column that the colmap of that refresh does not name.
C17_Witness ==
    /\ deal_fields = fields
    /\ \E c \in columns \ BaseColumns : \A r \in deal_colmap : r.column # c

--------------------------------------------------------------------------
(* ---------------- Properties of refresh followed by sync --------------- *)

\* C20: once a schema refresh has seen every field of the entity and a sync
\* has ended after it, every row of the table, of an id synced before the
\* refresh or fetched for the first time, has a value in the column of
\* every field.
C20_NewColumnFilled ==
    (ephase = "idle" /\ synced /\ deal_fields = fields) =>
        \A k \in 1..Len(utable) : \A r \in meta : utable[k][r.column] # Null

--------------------------------------------------------------------------
(* ---------------- Properties of one batch ------------------------------ *)

\* C25: after a batch was handed to upsert_rows, the call has not raised
\* and every item of the batch has its row, holding the item's value in
\* every column that takes it.
C25_BadFieldTolerated ==
    bresult # "none" =>
        /\ bresult = "ok"
        /\ \A item \in bbatch :
              \E k \in 1..Len(utable) :
                  /\ utable[k][ColId] = item.id
                  /\ \A r \in meta :
                        Storable(item.vals[r.field], PgType(r.field)) =>
                            utable[k][r.column] = item.vals[r.field]

--------------------------------------------------------------------------
(* ---------------- Properties of sync_entity_data_contact --------------- *)

\* C27: once a contact sync has ended on an empty batch, every remote
\* contact has its row in the local table.
C27_NoContactSkipped == cended => cremote \subseteq ctable

--------------------------------------------------------------------------
(* ------- Properties of a sync pass racing the webhook worker ----------- *)

\* C30: once the sync pass and the worker have both written the record, the
\* local row holds the newer of the two versions they fetched.
C30_NewestVersionStored ==
    (rsync.pc = "done" /\ rwork.pc = "done") => rstored = Max2(rsync.got, rwork.got)

============================================================================
